---- MODULE Spec2Model ----
(***************************************************************************)
(* Model of the availability resolver of the library chatbot               *)
(* (src/scraper/availability_checker.py) and of its callers in             *)
(* src/api/main.py.                                                        *)
(*                                                                         *)
(* Text is modelled at character level: a Python str is a tuple of         *)
(* one-character strings.  A character outside ASCII is written as its     *)
(* code point ("U+0111" is the small d with stroke), still one element of  *)
(* the tuple.  Python's None is the one-element tuple <<"None">>, which no *)
(* text equals because "None" is not a character.                          *)
(***************************************************************************)
EXTENDS Integers, Sequences, FiniteSets, TLC

VARIABLES
    remotePage,   \* the document the remote site serves for the page GET
    remoteFrag,   \* the fragment the remote site serves for the getLokacije POST
    session,      \* cookie jar of AvailabilityChecker.session (one per process)
    lastCall,     \* what the latest invocation did: requests sent, report, outcome
    table,        \* input of the parser specification: one table
    parsed,       \* result of the parser applied to table
    cell,         \* input of the classifier specification: one status cell
    classified,   \* result of the classifier applied to cell
    reportIn,     \* input of the formatter specification: one report
    message,      \* result of the formatter applied to reportIn
    scrape,       \* the run of LibraryScraper.scrape_catalog_full in progress
    db,           \* the SQLite store behind DatabaseManager (one connection)
    inserted,     \* what the latest insert_book call was given and returned
    response      \* what the API answered to the latest HTTP request

vars == <<remotePage, remoteFrag, session, lastCall, table, parsed, cell, classified,
          reportIn, message, scrape, db, inserted, response>>

None == <<"None">>

(***************************************************************************)
(* String literals of the source.                                          *)
(***************************************************************************)
s_tel == <<"t", "e", "l", ":">>
s_Lokacija == <<"L", "o", "k", "a", "c", "i", "j", "a">>
s_Signatura == <<"S", "i", "g", "n", "a", "t", "u", "r", "a">>
s_Ident == <<"I", "d", "e", "n", "t">>
s_Status == <<"S", "t", "a", "t", "u", "s">>
s_posudjeno == <<"p", "o", "s", "u", "d", "j", "e", "n", "o">>
s_posudjeno_stroke == <<"p", "o", "s", "u", "U+0111", "e", "n", "o">>
s_posudeno == <<"p", "o", "s", "u", "d", "e", "n", "o">>
s_za_posudbu == <<"z", "a", "_", "p", "o", "s", "u", "d", "b", "u">>
s_dostupno == <<"d", "o", "s", "t", "u", "p", "n", "o">>
s_provjerite == <<"p", "r", "o", "v", "j", "e", "r", "i", "t", "e">>
s_provjerite_status == <<"p", "r", "o", "v", "j", "e", "r", "i", "t", "e", " ", "s", "t", "a", "t", "u", "s">>
n_Dostupno == <<"D", "o", "s", "t", "u", "p", "n", "o">>
n_Posudjeno == <<"P", "o", "s", "u", "U+0111", "e", "n", "o">>
n_Posudjeno_do == <<"P", "o", "s", "u", "U+0111", "e", "n", "o", " ", "d", "o", " ">>
n_Dostupno_provjerite == <<"D", "o", "s", "t", "u", "p", "n", "o", " ", "(", "p", "r", "o", "v", "j", "e", "r", "i", "t", "e", " ", "s", "t", "a", "t", "u", "s", ")">>
n_E_knjiga == <<"U+1F4F1", " ", "E", "-", "k", "n", "j", "i", "g", "a", " ", "(", "d", "o", "s", "t", "u", "p", "n", "a", " ", "z", "a", " ", "p", "o", "s", "u", "d", "b", "u", ")">>
n_Status_na_upit == <<"S", "t", "a", "t", "u", "s", " ", "d", "o", "s", "t", "u", "p", "a", "n", " ", "n", "a", " ", "u", "p", "i", "t", " ", "(", "P", "r", "o", "v", "j", "e", "r", "i", "t", "e", " ", "s", "t", "a", "t", "u", "s", ")">>
s_Sredisnja_knjiznica == <<"S", "r", "e", "d", "i", "U+0161", "n", "j", "a", " ", "k", "n", "j", "i", "U+017E", "n", "i", "c", "a">>
s_open == <<" ", "(">>
s_close == <<")">>

(***************************************************************************)
(* Python str operations used by the source.                               *)
(***************************************************************************)
UpperChars == <<"A", "B", "C", "D", "E", "F", "G", "H", "I", "J", "K", "L", "M",
                "N", "O", "P", "Q", "R", "S", "T", "U", "V", "W", "X", "Y", "Z", "U+0110">>
LowerChars == <<"a", "b", "c", "d", "e", "f", "g", "h", "i", "j", "k", "l", "m",
                "n", "o", "p", "q", "r", "s", "t", "u", "v", "w", "x", "y", "z", "U+0111">>
Digits == {"0", "1", "2", "3", "4", "5", "6", "7", "8", "9"}
Whitespace == {" "}

\* str.lower() on one character
LowerChar(c) ==
    IF \E i \in 1..Len(UpperChars) : UpperChars[i] = c
    THEN LowerChars[CHOOSE i \in 1..Len(UpperChars) : UpperChars[i] = c]
    ELSE c

\* str.lower()
Lower(s) == [i \in 1..Len(s) |-> LowerChar(s[i])]

\* s[i:] starts with sub
StartsAt(s, i, sub) ==
    /\ i >= 1
    /\ i + Len(sub) - 1 <= Len(s)
    /\ \A k \in 1..Len(sub) : s[i + k - 1] = sub[k]

\* sub in s
Contains(s, sub) == \E i \in 1..(Len(s) + 1) : StartsAt(s, i, sub)

\* s.find(sub) as a 1-based index, 0 when absent
Find(s, sub) ==
    IF Contains(s, sub)
    THEN CHOOSE i \in 1..(Len(s) + 1) :
            /\ StartsAt(s, i, sub)
            /\ \A j \in 1..(i - 1) : ~StartsAt(s, j, sub)
    ELSE 0

\* str.strip()
Strip(s) ==
    LET keep == {i \in 1..Len(s) : s[i] \notin Whitespace}
    IN  IF keep = {} THEN <<>>
        ELSE LET lo == CHOOSE i \in keep : \A j \in keep : i <= j
                 hi == CHOOSE i \in keep : \A j \in keep : j <= i
             IN  SubSeq(s, lo, hi)

\* s.split(sep)[0] for a one-character separator
SplitFirst(s, sep) ==
    LET i == Find(s, <<sep>>)
    IN  IF i = 0 THEN s ELSE SubSeq(s, 1, i - 1)

RECURSIVE Concat(_)
\* "".join(parts)
Concat(parts) ==
    IF parts = <<>> THEN <<>> ELSE Head(parts) \o Concat(Tail(parts))

(***************************************************************************)
(* The parsed document (BeautifulSoup).  A td is                           *)
(*   [cls, nodes, img, lcp]: its class attribute, its text nodes in        *)
(*   document order, the src of its first img (None without an img, the    *)
(*   empty text for an img without src) and whether its raw markup holds   *)
(*   the token posudbaLCP.                                                 *)
(* A tr is [cells, hidden]; a table is [cls, id, rows]; a document is      *)
(* [naslov, name, tables].                                                 *)
(***************************************************************************)
Td(cls, nodes, img, lcp) == [cls |-> cls, nodes |-> nodes, img |-> img, lcp |-> lcp]
TextTd(text) == Td("", <<text>>, None, FALSE)
Tr(cells) == [cells |-> cells, hidden |-> FALSE]

\* tag.get_text(strip=True): every text node stripped, empty ones left out
get_text_strip(td) == Concat([i \in 1..Len(td.nodes) |-> Strip(td.nodes[i])])

\* tag.get_text()
get_text(td) == Concat(td.nodes)

\* tag.get_text(separator="|")
get_text_sep(td, sep) ==
    Concat([i \in 1..Len(td.nodes) |->
              IF i = 1 THEN td.nodes[i] ELSE <<sep>> \o td.nodes[i]])

\* row.get_text()
row_get_text(row) == Concat([i \in 1..Len(row.cells) |-> get_text(row.cells[i])])

(***************************************************************************)
(* re.search(r'(\d{1,2}\.\d{1,2}\.\d{4})', text): the leftmost match, the  *)
(* quantifiers greedy with backtracking.                                   *)
(***************************************************************************)
IsDigits(s, i, n) ==
    /\ i >= 1
    /\ i + n - 1 <= Len(s)
    /\ \A k \in i..(i + n - 1) : s[k] \in Digits

IsDot(s, i) == i >= 1 /\ i <= Len(s) /\ s[i] = "."

\* the pattern matches at i with a digits, a dot, b digits, a dot, four digits
DateMatch(s, i, a, b) ==
    /\ IsDigits(s, i, a)
    /\ IsDot(s, i + a)
    /\ IsDigits(s, i + a + 1, b)
    /\ IsDot(s, i + a + 1 + b)
    /\ IsDigits(s, i + a + b + 2, 4)

\* length of the match the engine finds at i, 0 for none
DateMatchLen(s, i) ==
    IF DateMatch(s, i, 2, 2) THEN 10
    ELSE IF DateMatch(s, i, 2, 1) THEN 9
    ELSE IF DateMatch(s, i, 1, 2) THEN 9
    ELSE IF DateMatch(s, i, 1, 1) THEN 8
    ELSE 0

\* a search that returns the rightmost match instead of the leftmost
date_search_last(s) ==
    LET starts == {i \in 1..Len(s) : DateMatchLen(s, i) > 0}
    IN  IF starts = {} THEN None
        ELSE LET i == CHOOSE i \in starts : \A j \in starts : j <= i
             IN  SubSeq(s, i, i + DateMatchLen(s, i) - 1)

\* date_match.group(1) if date_match else None
date_search(s) ==
    LET starts == {i \in 1..Len(s) : DateMatchLen(s, i) > 0}
    IN  IF starts = {} THEN None
        ELSE LET i == CHOOSE i \in starts : \A j \in starts : i <= j
             IN  SubSeq(s, i, i + DateMatchLen(s, i) - 1)

(***************************************************************************)
(* Status classification.  A result is a dict, modelled as a record, or    *)
(* None, modelled as NoStatus.                                             *)
(***************************************************************************)
NoStatus == [status |-> "None"]

Borrowed(signature, due_date) ==
    [signature |-> signature,
     status |-> "borrowed",
     note |-> IF due_date # None THEN n_Posudjeno_do \o due_date ELSE n_Posudjeno,
     due_date |-> due_date]

\* a cell whose markup makes the classifier's try body raise
Malformed(td) == td @@ [malformed |-> TRUE]
Raises(td) == "malformed" \in DOMAIN td

\* AvailabilityChecker._parse_td_status; the except clause returns None
_parse_td_status(status_td, signature) ==
    IF Raises(status_td) THEN NoStatus
    ELSE
    LET status_text == get_text_strip(status_td)
        status_img == status_td.img
        img_src == Lower(status_img)
        status_lower == Lower(status_text)
    IN  IF /\ status_img # None
           /\ \/ Contains(img_src, s_posudjeno)
              \/ Contains(img_src, s_posudjeno_stroke)
        THEN Borrowed(signature, date_search(status_text))
        ELSE IF /\ status_img # None
                /\ \/ Contains(img_src, s_za_posudbu)
                   \/ Contains(img_src, s_dostupno)
        THEN [signature |-> signature, status |-> "available",
              note |-> n_Dostupno, due_date |-> None]
        ELSE IF \/ Contains(status_lower, s_posudjeno_stroke)
                \/ Contains(status_lower, s_posudeno)
        THEN Borrowed(signature, date_search(status_text))
        ELSE IF Contains(status_lower, s_provjerite)
        THEN [signature |-> signature, status |-> "available",
              note |-> n_Dostupno_provjerite, due_date |-> None]
        ELSE [signature |-> signature, status |-> "unknown",
              note |-> status_text, due_date |-> None]

\* AvailabilityChecker._parse_row_status
_parse_row_status(row) ==
    IF Len(row.cells) < 3 THEN NoStatus
    ELSE IF Raises(row.cells[3]) THEN NoStatus
    ELSE
    LET signature == get_text_strip(row.cells[2])
        status_cell == row.cells[3]
        status_img == status_cell.img
        status_text == get_text_strip(status_cell)
        img_src == Lower(status_img)
    IN  IF status_cell.lcp
        THEN [signature |-> signature, status |-> "available",
              note |-> n_E_knjiga, due_date |-> None]
        ELSE IF status_img # None /\ Contains(img_src, s_za_posudbu)
        THEN [signature |-> signature, status |-> "available",
              note |-> n_Dostupno, due_date |-> None]
        ELSE IF /\ status_img # None
                /\ \/ Contains(img_src, s_posudjeno)
                   \/ Contains(img_src, s_posudjeno_stroke)
        THEN Borrowed(signature, date_search(get_text(status_cell)))
        ELSE IF Contains(Lower(status_text), s_provjerite_status)
        THEN [signature |-> signature, status |-> "unknown",
              note |-> n_Status_na_upit]
        ELSE IF Contains(Lower(status_text), s_dostupno)
        THEN [signature |-> signature, status |-> "available",
              note |-> n_Dostupno]
        ELSE NoStatus

(***************************************************************************)
(* Tables and their parsers.                                               *)
(***************************************************************************)
Table(cls, id, rows) == [cls |-> cls, id |-> id, rows |-> rows]
NoTable == [cls |-> "None"]

\* Python truthiness of an optional str: None and "" are false
Truthy(s) == s # None /\ s # <<>>

\* one entry of the locations list
Location(location, status_info, due_date) ==
    [location |-> location,
     signature |-> status_info.signature,
     status |-> status_info.status,
     note |-> status_info.note,
     due_date |-> due_date]

\* re.sub(r',.*?tel:.*', '', text): cut at the first comma that has "tel:" after it
CutAddressTel(text) ==
    LET commas == {i \in 1..Len(text) :
                     /\ text[i] = ","
                     /\ \E j \in (i + 1)..Len(text) : StartsAt(text, j, s_tel)}
    IN  IF commas = {} THEN text
        ELSE SubSeq(text, 1, (CHOOSE i \in commas : \A j \in commas : i <= j) - 1)

\* re.sub(r',\s*\d+.*', '', text): cut at the first comma followed, after any
\* whitespace, by a digit
CutNumber(text) ==
    LET commas == {i \in 1..Len(text) :
                     /\ text[i] = ","
                     /\ \E j \in (i + 1)..Len(text) :
                          /\ text[j] \in Digits
                          /\ \A k \in (i + 1)..(j - 1) : text[k] \in Whitespace}
    IN  IF commas = {} THEN text
        ELSE SubSeq(text, 1, (CHOOSE i \in commas : \A j \in commas : i <= j) - 1)

\* AvailabilityChecker._extract_location_name
_extract_location_name(text) ==
    LET clean_text == CutNumber(CutAddressTel(text))
    IN  IF Strip(clean_text) = <<>>
        THEN Strip(SplitFirst(text, ","))
        ELSE Strip(clean_text)

\* the row loop ended by the first row whose status is not parsed
AjaxRow_abort(acc, row) ==
    LET cells == row.cells
        first_cell_text == get_text_strip(cells[1])
    IN  IF cells = <<>> THEN acc
        ELSE IF acc.current_location = s_tel THEN acc
        ELSE IF Contains(first_cell_text, s_tel)
        THEN [acc EXCEPT !.current_location = _extract_location_name(first_cell_text)]
        ELSE IF Len(cells) >= 3 /\ first_cell_text = s_Lokacija
        THEN acc
        ELSE IF Truthy(acc.current_location) /\ Len(cells) >= 3
        THEN LET location_detail == first_cell_text
                 signature == get_text_strip(cells[2])
                 status_info == _parse_td_status(cells[3], signature)
             IN  IF status_info # NoStatus
                 THEN [acc EXCEPT !.locations = Append(@,
                         Location(acc.current_location \o s_open \o location_detail \o s_close,
                                  status_info, status_info.due_date))]
                 ELSE [acc EXCEPT !.current_location = s_tel]
        ELSE acc

\* the row loop without the test for a current location
AjaxRow_no_location_check(acc, row) ==
    LET cells == row.cells
        first_cell_text == get_text_strip(cells[1])
    IN  IF cells = <<>> THEN acc
        ELSE IF Contains(first_cell_text, s_tel)
        THEN [acc EXCEPT !.current_location = _extract_location_name(first_cell_text)]
        ELSE IF Len(cells) >= 3 /\ first_cell_text = s_Lokacija
        THEN acc
        ELSE IF Len(cells) >= 3
        THEN LET location_detail == first_cell_text
                 signature == get_text_strip(cells[2])
                 status_info == _parse_td_status(cells[3], signature)
             IN  IF status_info # NoStatus
                 THEN [acc EXCEPT !.locations = Append(@,
                         Location(acc.current_location \o s_open \o location_detail \o s_close,
                                  status_info, status_info.due_date))]
                 ELSE acc
        ELSE acc

\* one iteration of the row loop of _parse_ajax_locations;
\* acc is [current_location, locations]
AjaxRow(acc, row) ==
    LET cells == row.cells
        first_cell_text == get_text_strip(cells[1])
    IN  IF cells = <<>> THEN acc
        ELSE IF Contains(first_cell_text, s_tel)
        THEN [acc EXCEPT !.current_location = _extract_location_name(first_cell_text)]
        ELSE IF Len(cells) >= 3 /\ first_cell_text = s_Lokacija
        THEN acc
        ELSE IF Truthy(acc.current_location) /\ Len(cells) >= 3
        THEN LET location_detail == first_cell_text
                 signature == get_text_strip(cells[2])
                 status_info == _parse_td_status(cells[3], signature)
             IN  IF status_info # NoStatus
                 THEN [acc EXCEPT !.locations = Append(@,
                         Location(acc.current_location \o s_open \o location_detail \o s_close,
                                  status_info, status_info.due_date))]
                 ELSE acc
        ELSE acc

RECURSIVE AjaxRows(_, _)
AjaxRows(acc, rows) ==
    IF rows = <<>> THEN acc ELSE AjaxRows(AjaxRow(acc, Head(rows)), Tail(rows))

\* AvailabilityChecker._parse_ajax_locations; soup is the sequence of the
\* document's tables
_parse_ajax_locations(soup) ==
    IF soup = <<>> THEN <<>>
    ELSE AjaxRows([current_location |-> None, locations |-> <<>>], soup[1].rows).locations

IsTblData(t) == t.cls = "tblData"
HasBibId(t) == t.id = "tableBibliografskiZapis"
HasStatusText(t) ==
    Contains(Concat([i \in 1..Len(t.rows) |-> row_get_text(t.rows[i])]), s_Status)

\* soup.find('table', ...): the first table of the document that matches;
\* matches[i] tells whether the i-th table does
FindTable(soup, matches) ==
    IF \E i \in 1..Len(soup) : matches[i]
    THEN soup[CHOOSE i \in 1..Len(soup) : matches[i] /\ \A j \in 1..(i - 1) : ~matches[j]]
    ELSE NoTable

NoTd == [cls |-> "None"]

\* row.find('td', class_='tdKnjiznicaNaziv')
lib_header(row) ==
    IF \E i \in 1..Len(row.cells) : row.cells[i].cls = "tdKnjiznicaNaziv"
    THEN row.cells[CHOOSE i \in 1..Len(row.cells) :
                     /\ row.cells[i].cls = "tdKnjiznicaNaziv"
                     /\ \A j \in 1..(i - 1) : row.cells[j].cls # "tdKnjiznicaNaziv"]
    ELSE NoTd

RECURSIVE LibraryAfter(_, _)
\* the for loop of _parse_locations: all it does is carry current_library
LibraryAfter(current_library, rows) ==
    IF rows = <<>> THEN current_library
    ELSE LET row == Head(rows)
         IN  IF lib_header(row) # NoTd
             THEN LibraryAfter(Strip(SplitFirst(get_text_sep(lib_header(row), "|"), "|")),
                               Tail(rows))
             ELSE LibraryAfter(current_library, Tail(rows))

\* AvailabilityChecker._parse_locations.  The result is [exc, value]: the
\* statements that handle a data row stand after the for loop, so they run
\* once, on the loop variable's last value, and fail with UnboundLocalError
\* when the table has no row.
_parse_locations(soup) ==
    LET byClass == FindTable(soup, [i \in 1..Len(soup) |-> IsTblData(soup[i])])
        byId == FindTable(soup, [i \in 1..Len(soup) |-> HasBibId(soup[i])])
        byText == FindTable(soup, [i \in 1..Len(soup) |-> HasStatusText(soup[i])])
        alt == IF byClass # NoTable THEN byClass
               ELSE IF byId # NoTable THEN byId
               ELSE byText
        tbl == byClass
    IN  IF alt = NoTable THEN [exc |-> "None", value |-> <<>>]
        ELSE IF tbl = NoTable THEN [exc |-> "None", value |-> <<>>]
        ELSE IF tbl.rows = <<>> THEN [exc |-> "UnboundLocalError"]
        ELSE
        LET current_library == LibraryAfter(s_Sredisnja_knjiznica, tbl.rows)
            row == tbl.rows[Len(tbl.rows)]
            cells == row.cells
            status_info == _parse_row_status(row)
            specific_dep == get_text_strip(cells[1])
        IN  IF Len(cells) >= 3 /\ ~row.hidden /\ status_info # NoStatus
            THEN [exc |-> "None",
                  value |-> <<Location(current_library \o s_open \o specific_dep \o s_close,
                                       status_info,
                                       IF "due_date" \in DOMAIN status_info
                                       THEN status_info.due_date ELSE None)>>]
            ELSE [exc |-> "None", value |-> <<>>]

(***************************************************************************)
(* The two-step fetch.  One invocation receives                            *)
(*   call = [jar, get, post, dataDir, random]                              *)
(* random: what random.random() returns for the POST's form field;         *)
(* jar: the session's cookies when it starts; get, post:                   *)
(* what the remote site and the network do to its two requests; dataDir:   *)
(* the state of the directory 'data' the AJAX step writes its debug copy   *)
(* to.  An outcome is [kind |-> "timeout"] or [kind |-> "connection"] (the *)
(* request raises, there is no response) or                                *)
(* [kind |-> "response", status, set_cookie, body].  The session keeps one  *)
(* cookie, the remote session id; its value records who had it set: "own", *)
(* a response to this invocation, or "earlier", a response to an earlier   *)
(* one.                                                                    *)
(***************************************************************************)
s_Nepoznato == <<"N", "e", "p", "o", "z", "n", "a", "t", "o">>
s_Greska == <<"G", "r", "e", "U+0161", "k", "a">>

NoResponse == {"timeout", "connection"}

\* str(e) of the exception a failed request raises
ErrorText(outcome) ==
    IF outcome.kind = "timeout" THEN "ReadTimeout"
    ELSE IF outcome.kind = "connection" THEN "ConnectionError"
    ELSE "HTTPError"

\* response.raise_for_status() raises
RaisesForStatus(status) == status >= 400 /\ status < 600

\* the cookie jar after a response
JarAfter(jar, outcome) ==
    IF outcome.kind = "response" /\ outcome.set_cookie THEN {"own"} ELSE jar

s_NA == <<"N", "/", "A">>

\* a title lookup that answers "N/A" for a page without a title
Title_na(page) ==
    IF page.divNaslov /\ page.hidden # None THEN Strip(page.hidden) ELSE s_NA

\* the title lookup of check_availability
Title(page) ==
    IF page.divNaslov /\ page.hidden # None THEN Strip(page.hidden) ELSE s_Nepoznato

\* BookDetailParser._extract_title
_extract_title(page) ==
    IF page.name # None THEN Strip(page.name)
    ELSE IF page.divNaslov /\ page.hidden # None THEN Strip(page.hidden)
    ELSE s_NA

\* an AJAX step that takes a session with a cookie of an earlier invocation
\* for one whose locations were already fetched and sends nothing
_get_locations_ajax_post_stale(book_id, call, jar) ==
    IF "earlier" \in jar
    THEN [locations |-> <<>>, requests |-> <<>>, jar |-> jar]
    ELSE LET request == [method |-> "POST", action |-> "getLokacije", id |-> book_id,
                         random |-> call.random, cookies |-> jar]
             sent == [requests |-> <<request>>, jar |-> JarAfter(jar, call.post)]
         IN  IF call.post.kind \in NoResponse
             THEN [locations |-> <<>>] @@ sent
             ELSE IF RaisesForStatus(call.post.status)
             THEN [locations |-> <<>>] @@ sent
             ELSE IF call.dataDir = "unwritable"
             THEN [locations |-> <<>>] @@ sent
             ELSE [locations |-> _parse_ajax_locations(call.post.body.tables)] @@ sent

\* AvailabilityChecker._get_locations_ajax_post: [locations, requests, jar]
_get_locations_ajax_post(book_id, call, jar) ==
    LET request == [method |-> "POST", action |-> "getLokacije", id |-> book_id,
                    random |-> call.random, cookies |-> jar]
        sent == [requests |-> <<request>>, jar |-> JarAfter(jar, call.post)]
    IN  IF call.post.kind \in NoResponse
        THEN [locations |-> <<>>] @@ sent
        ELSE IF RaisesForStatus(call.post.status)
        THEN [locations |-> <<>>] @@ sent
        ELSE IF call.dataDir = "unwritable"
        THEN [locations |-> <<>>] @@ sent
        ELSE [locations |-> _parse_ajax_locations(call.post.body.tables)] @@ sent

\* a try block that sends the page GET a second time when the first fails
TryBlock_retry(book_id, call) ==
    LET request == [method |-> "GET", action |-> "page", id |-> book_id,
                    cookies |-> call.jar]
        jar1 == JarAfter(call.jar, call.get)
    IN  IF call.get.kind \in NoResponse \/ RaisesForStatus(call.get.status)
        THEN [exc |-> ErrorText(call.get), requests |-> <<request, request>>, jar |-> jar1]
        ELSE LET result(ajax) ==
                     [exc |-> "None",
                      report |-> [book_id |-> book_id,
                                  title |-> Title(call.get.body),
                                  locations |-> ajax.locations],
                      requests |-> <<request>> \o ajax.requests,
                      jar |-> ajax.jar]
             IN  result(_get_locations_ajax_post(book_id, call, jar1))

\* the try block of check_availability: [exc, report, requests, jar]
TryBlock(book_id, call) ==
    LET request == [method |-> "GET", action |-> "page", id |-> book_id,
                    cookies |-> call.jar]
        jar1 == JarAfter(call.jar, call.get)
    IN  IF call.get.kind \in NoResponse \/ RaisesForStatus(call.get.status)
        THEN [exc |-> ErrorText(call.get), requests |-> <<request>>, jar |-> jar1]
        ELSE LET result(ajax) ==
                     [exc |-> "None",
                      report |-> [book_id |-> book_id,
                                  title |-> Title(call.get.body),
                                  locations |-> ajax.locations],
                      requests |-> <<request>> \o ajax.requests,
                      jar |-> ajax.jar]
             IN  result(_get_locations_ajax_post(book_id, call, jar1))

\* an except clause that handles HTTPError alone
ExceptClause_HTTPError_only(book_id, attempt) ==
    IF attempt.exc = "HTTPError"
    THEN [raised |-> "None",
          report |-> [book_id |-> book_id, title |-> s_Greska, locations |-> <<>>,
                      error |-> attempt.exc],
          requests |-> attempt.requests,
          jar |-> attempt.jar]
    ELSE [raised |-> attempt.exc, requests |-> attempt.requests, jar |-> attempt.jar]

\* the except clause of check_availability: every Exception becomes a report
ExceptClause(book_id, attempt) ==
    [raised |-> "None",
     report |-> [book_id |-> book_id, title |-> s_Greska, locations |-> <<>>,
                 error |-> attempt.exc],
     requests |-> attempt.requests,
     jar |-> attempt.jar]

\* a check_availability that loads the start page of the catalog first
check_availability_home_first(book_id, call) ==
    LET home == [method |-> "GET", action |-> "home", id |-> book_id, cookies |-> call.jar]
        outcome(attempt) ==
            IF attempt.exc # "None"
            THEN ExceptClause(book_id, attempt)
            ELSE [raised |-> "None", report |-> attempt.report,
                  requests |-> <<home>> \o attempt.requests, jar |-> attempt.jar]
    IN  outcome(TryBlock(book_id, call))

\* AvailabilityChecker.check_availability (the second definition of the class,
\* the one Python keeps): [raised, report, requests, jar]
check_availability(book_id, call) ==
    LET outcome(attempt) ==
            IF attempt.exc # "None"
            THEN ExceptClause(book_id, attempt)
            ELSE [raised |-> "None", report |-> attempt.report,
                  requests |-> attempt.requests, jar |-> attempt.jar]
    IN  outcome(TryBlock(book_id, call))

(***************************************************************************)
(* The message formatter.  A message is the sequence of the pieces the     *)
(* f-strings concatenate: a literal piece [lit |-> ...] (the source's      *)
(* Croatian sentences without their diacritics, glyphs and the backquote   *)
(* by code point) or a                                                     *)
(* value piece [txt |-> ...].  A URL in a literal would be a piece of its   *)
(* own, [link |-> ...]; the literals of format_availability_message hold   *)
(* none.                                                                   *)
(***************************************************************************)
Lit(s) == [lit |-> s]
Txt(t) == [txt |-> t]

Apology ==
    <<Lit("Zao mi je, trenutno ne mogu provjeriti status u katalogu. Molim vas pokusajte kasnije.")>>

StatusGlyph(loc) ==
    IF loc.status = "available" THEN Lit("U+2705")
    ELSE IF loc.status = "borrowed" THEN Lit("U+274C")
    ELSE Lit("U+2753")

\* a status text that prints the due date of every borrowed copy, also a missing one
StatusText_always_due(loc) ==
    IF loc.status = "available" THEN <<Lit("Slobodno")>>
    ELSE IF loc.status = "borrowed"
    THEN <<Lit("Posudjeno (rok: "), Txt(loc.due_date), Lit(")")>>
    ELSE <<Lit("Nepoznato")>>

StatusText(loc) ==
    IF loc.status = "available" THEN <<Lit("Slobodno")>>
    ELSE IF loc.status = "borrowed"
    THEN IF Truthy(loc.due_date)
         THEN <<Lit("Posudjeno (rok: "), Txt(loc.due_date), Lit(")")>>
         ELSE <<Lit("Posudjeno")>>
    ELSE <<Lit("Nepoznato")>>

LocationBlock(loc) ==
    <<Lit("\n"), StatusGlyph(loc), Lit(" **"), Txt(loc.location), Lit("**"),
      Lit("\n   Status: ")>>
    \o StatusText(loc)
    \o <<Lit("\n   Signatura: U+0060"), Txt(loc.signature), Lit("U+0060\n")>>

\* a formatter that appends the error text to the apology
format_error_detail(availability) ==
    IF "error" \in DOMAIN availability THEN Apology \o <<Txt(availability.error)>>
    ELSE IF availability.locations = <<>>
    THEN <<Lit("Nazalost, trenutno ne mogu pronaci podatke o dostupnosti za knjigu: **"),
           Txt(availability.title), Lit("**.")>>
    ELSE <<Lit("U+1F50D **Status za: "), Txt(availability.title), Lit("**\n")>>
         \o Concat([i \in 1..Len(availability.locations) |->
                      LocationBlock(availability.locations[i])])

\* a formatter that looks at the locations before it looks at the error
format_locations_first(availability) ==
    IF availability.locations = <<>>
    THEN <<Lit("Nazalost, trenutno ne mogu pronaci podatke o dostupnosti za knjigu: **"),
           Txt(availability.title), Lit("**.")>>
    ELSE IF "error" \in DOMAIN availability THEN Apology
    ELSE <<Lit("U+1F50D **Status za: "), Txt(availability.title), Lit("**\n")>>
         \o Concat([i \in 1..Len(availability.locations) |->
                      LocationBlock(availability.locations[i])])

\* AvailabilityChecker.format_availability_message
format_availability_message(availability) ==
    IF "error" \in DOMAIN availability THEN Apology
    ELSE IF availability.locations = <<>>
    THEN <<Lit("Nazalost, trenutno ne mogu pronaci podatke o dostupnosti za knjigu: **"),
           Txt(availability.title), Lit("**.")>>
    ELSE <<Lit("U+1F50D **Status za: "), Txt(availability.title), Lit("**\n")>>
         \o Concat([i \in 1..Len(availability.locations) |->
                      LocationBlock(availability.locations[i])])

(***************************************************************************)
(* Bounded inputs.                                                         *)
(***************************************************************************)
MaxFragRows == 2

SeqsUpTo(S, n) == UNION {[1..k -> S] : k \in 0..n}

BookIds == {"428003512", "428003513"}

t_Kastav == <<"K", "a", "s", "t", "a", "v">>
t_Viskovo == <<"V", "i", "s", "k", "o", "v", "o">>
t_address == <<",", " ", "T", "r", "g", " ", "1", ",", " ", "t", "e", "l", ":", " ", "0", "5", "1">>
t_dep == <<"2", "8", "1">>
t_sig == <<"K", "1">>
t_za_posudbu_png == <<"z", "a", "_", "p", "o", "s", "u", "d", "b", "u", ".", "p", "n", "g">>
t_posudjeno_png == <<"P", "o", "s", "u", "d", "j", "e", "n", "o", ".", "p", "n", "g">>
t_do_date == <<"d", "o", " ", "1", "5", ".", "3", ".", "2", "0", "2", "5">>
t_xyz == <<"x", "y", "z">>
t_Ana == <<"A", "n", "a">>
t_Bob == <<"B", "o", "b">>

\* a row naming a branch: a marked first cell, the name, then address and phone
MarkerRow(name) == Tr(<<Td("tdKnjiznicaNaziv", <<name, t_address>>, None, FALSE)>>)
HeaderRow == Tr(<<TextTd(s_Lokacija), TextTd(s_Signatura), TextTd(s_Status)>>)
DataRow(status_td) == Tr(<<TextTd(t_dep), TextTd(t_sig), status_td>>)

c_available == Td("", <<>>, t_za_posudbu_png, FALSE)
c_borrowed == Td("", <<t_do_date>>, t_posudjeno_png, FALSE)
c_unrecognized == Td("", <<t_xyz>>, None, FALSE)
c_lcp_borrowed == Td("", <<>>, t_posudjeno_png, TRUE)

StatusCells == {c_available, c_borrowed, c_unrecognized, c_lcp_borrowed}

FragRows == {MarkerRow(t_Kastav)} \cup {DataRow(c) : c \in StatusCells}

\* what the getLokacije POST may answer: no table, or one table without class
FragSet ==
    {[tables |-> <<>>]}
    \cup {[tables |-> <<Table("", "", rows)>>] : rows \in SeqsUpTo(FragRows, MaxFragRows)}

\* a block container: a table under a sub-heading of its container
Block(heading, t) == t @@ [heading |-> heading]

\* a page [name, divNaslov, hidden, tables]: the text of span[itemprop=name]
\* (None without one), whether div#divNaslov exists, the text of its
\* span.hidden (None without one), the tables in document order
Page(name, divNaslov, hidden, tables) ==
    [name |-> name, divNaslov |-> divNaslov, hidden |-> hidden, tables |-> tables]

\* the record page of a book held by two branches, three copies and two
PrimaryTable ==
    Table("tblData", "",
          <<MarkerRow(t_Kastav), DataRow(c_available), DataRow(c_available),
            DataRow(c_available),
            MarkerRow(t_Viskovo), DataRow(c_available), DataRow(c_available)>>)

\* a page without tblData whose copies stand in a table under a heading
HeadingBlock ==
    Block(t_Kastav \o t_address,
          Table("", "", <<DataRow(c_available), DataRow(c_borrowed)>>))

\* what the page GET may answer
PageSet ==
    {Page(None, FALSE, None, <<>>),
     Page(None, TRUE, None, <<>>),
     Page(None, TRUE, t_Ana, <<>>),
     Page(None, TRUE, t_Ana, <<PrimaryTable>>),
     Page(t_Bob, TRUE, t_Ana, <<>>),
     Page(t_Bob, FALSE, None, <<HeadingBlock>>)}

HttpStatuses == {200, 404}
\* the debug copy passes (no directory 'data', or the file is written) or raises
DataDirs == {"passes", "unwritable"}
NotSent == [kind |-> "not sent"]
\* values random.random() may return
Randoms == {"0.25", "0.75"}

Failures == {[kind |-> k] : k \in NoResponse}

GetOutcomes(page) ==
    Failures
    \cup {[kind |-> "response", status |-> st, set_cookie |-> sc, body |-> page] :
            st \in HttpStatuses, sc \in BOOLEAN}

\* the remote site sets its session cookie on the page load only
PostOutcomes(frag) ==
    Failures
    \cup {[kind |-> "response", status |-> st, set_cookie |-> FALSE, body |-> frag] :
            st \in HttpStatuses}

\* an outcome without the body, as kept in lastCall
Met(outcome) ==
    IF outcome.kind = "response"
    THEN [kind |-> "response", status |-> outcome.status, set_cookie |-> outcome.set_cookie]
    ELSE outcome

Ok(outcome) == outcome.kind = "response" /\ ~RaisesForStatus(outcome.status)

(***************************************************************************)
(* The book store (src/database/db_manager.py): one SQLite file behind one *)
(* connection.  A table is the sequence of its rows in rowid order; of the *)
(* columns of books the id, the title and the author are kept, and the     *)
(* AUTOINCREMENT keys of the other tables are left out.  The store is      *)
(*   [committed, working]                                                  *)
(* the tables as of the last COMMIT and the tables as the connection sees  *)
(* them, which differ while a transaction is open.  An id is a plain       *)
(* string; a missing one (Python None, SQL NULL) is NoneId.                *)
(***************************************************************************)
NoneId == "None"

TableNames ==
    {"books", "book_authors", "book_subjects", "book_tags",
     "book_classifications", "book_notes", "book_availability"}

\* the tables other than books that insert_book writes
RelatedTables ==
    <<"book_authors", "book_subjects", "book_tags", "book_classifications", "book_notes">>

\* _create_tables on a new file
EmptyTables == [t \in TableNames |-> <<>>]

EmptyStore == [committed |-> EmptyTables, working |-> EmptyTables]

\* SQL "a = b": never true of NULL
SqlEq(a, b) == a # NoneId /\ b # NoneId /\ a = b

\* dict.get(key, default)
Get(d, key, default) == IF key \in DOMAIN d THEN d[key] ELSE default

RECURSIVE WithoutBook(_, _)
\* the rows left by DELETE ... WHERE id = ? (or book_id = ?); a books row has
\* the field id, a row of another table the field book_id
WithoutBook(rows, book_id) ==
    IF rows = <<>> THEN <<>>
    ELSE LET r == Head(rows)
             key == IF "book_id" \in DOMAIN r THEN r.book_id ELSE r.id
         IN  IF SqlEq(key, book_id)
             THEN WithoutBook(Tail(rows), book_id)
             ELSE <<r>> \o WithoutBook(Tail(rows), book_id)

RECURSIVE Remove(_, _)
\* s.replace(ch, '')
Remove(s, ch) ==
    IF s = <<>> THEN <<>>
    ELSE IF Head(s) = ch THEN Remove(Tail(s), ch)
    ELSE <<Head(s)>> \o Remove(Tail(s), ch)

s_contributor == <<"c", "o", "n", "t", "r", "i", "b", "u", "t", "o", "r">>

\* the row insert_book writes for one entry of other_authors, "Name (role)"
AuthorRow(book_id, author_info) ==
    LET i == Find(author_info, <<"(">>)
        rest == SubSeq(author_info, i + 1, Len(author_info))
    IN  IF i # 0
        THEN [book_id |-> book_id,
              author_name |-> Strip(SubSeq(author_info, 1, i - 1)),
              author_role |-> Strip(Remove(SplitFirst(rest, "("), ")"))]
        ELSE [book_id |-> book_id, author_name |-> author_info,
              author_role |-> s_contributor]

\* the rows insert_book adds to one related table
RelatedRows(book_data, tbl) ==
    LET book_id == Get(book_data, "id", NoneId)
    IN  IF tbl = "book_authors"
        THEN LET l == Get(book_data, "other_authors", <<>>)
             IN  [i \in 1..Len(l) |-> AuthorRow(book_id, l[i])]
        ELSE IF tbl = "book_subjects"
        THEN LET l == Get(book_data, "subjects", <<>>)
             IN  [i \in 1..Len(l) |-> [book_id |-> book_id, subject |-> l[i]]]
        ELSE IF tbl = "book_tags"
        THEN LET l == Get(book_data, "tags", <<>>)
             IN  [i \in 1..Len(l) |-> [book_id |-> book_id, tag |-> l[i]]]
        ELSE IF tbl = "book_classifications"
        THEN LET l == Get(book_data, "classifications", <<>>)
             IN  [i \in 1..Len(l) |->
                    [book_id |-> book_id, code |-> Get(l[i], "code", None),
                     description |-> Get(l[i], "description", None)]]
        ELSE LET l == Get(book_data, "notes", <<>>)
             IN  [i \in 1..Len(l) |-> [book_id |-> book_id, note |-> l[i]]]

\* the statements of one insert_book call, in the order it executes them
Statements(book_data) ==
    LET book_id == Get(book_data, "id", NoneId)
    IN  <<[op |-> "replace",
           row |-> [id |-> book_id, title |-> Get(book_data, "title", None),
                    author |-> Get(book_data, "author", None)]]>>
        \o [i \in 1..Len(RelatedTables) |->
              [op |-> "delete", tbl |-> RelatedTables[i], book_id |-> book_id]]
        \o Concat([i \in 1..Len(RelatedTables) |->
              LET rows == RelatedRows(book_data, RelatedTables[i])
              IN  [k \in 1..Len(rows) |->
                     [op |-> "insert", tbl |-> RelatedTables[i], row |-> rows[k]]]])

\* the statement violates a constraint of the schema: title TEXT NOT NULL
Violates(stmt) == stmt.op = "replace" /\ stmt.row.title = None

\* the tables after one statement.  INSERT OR REPLACE deletes the row with
\* the same key and adds the new one at a new rowid; id TEXT PRIMARY KEY
\* takes NULL, which equals no key.
Apply(tables, stmt) ==
    IF stmt.op = "replace"
    THEN [tables EXCEPT !.books = Append(WithoutBook(@, stmt.row.id), stmt.row)]
    ELSE IF stmt.op = "delete"
    THEN [tables EXCEPT ![stmt.tbl] = WithoutBook(@, stmt.book_id)]
    ELSE [tables EXCEPT ![stmt.tbl] = Append(@, stmt.row)]

RECURSIVE Execute(_, _, _, _)
\* cursor.execute of the statements from the k-th on; the failAt-th raises
\* (a locked or full file), as does one that violates the schema
Execute(tables, stmts, k, failAt) ==
    IF k > Len(stmts) THEN [ok |-> TRUE, tables |-> tables]
    ELSE IF k = failAt \/ Violates(stmts[k]) THEN [ok |-> FALSE, tables |-> tables]
    ELSE Execute(Apply(tables, stmts[k]), stmts, k + 1, failAt)

\* an insert_book whose except clause returns False without the rollback
insert_book_no_rollback(store, book_data, failAt) ==
    LET stmts == Statements(book_data)
        done(run) ==
            IF run.ok /\ failAt # Len(stmts) + 1
            THEN [returned |-> TRUE,
                  store |-> [committed |-> run.tables, working |-> run.tables]]
            ELSE [returned |-> FALSE,
                  store |-> [committed |-> store.committed, working |-> run.tables]]
    IN  done(Execute(store.working, stmts, 1, failAt))

\* DatabaseManager.insert_book: [returned, store].  failAt = 0: nothing fails
\* from outside; failAt = Len(stmts) + 1: the COMMIT fails
insert_book(store, book_data, failAt) ==
    LET stmts == Statements(book_data)
        done(run) ==
            IF run.ok /\ failAt # Len(stmts) + 1
            THEN [returned |-> TRUE,
                  store |-> [committed |-> run.tables, working |-> run.tables]]
            ELSE [returned |-> FALSE,
                  store |-> [committed |-> store.committed, working |-> store.committed]]
    IN  done(Execute(store.working, stmts, 1, failAt))

(***************************************************************************)
(* The server process.  It holds one AvailabilityChecker (main.py:17) and  *)
(* its handlers are coroutines that never await, so invocations run one    *)
(* after the other.                                                        *)
(***************************************************************************)
NoCall == [book_id |-> "None"]
NoCell == Td("", <<>>, None, FALSE)
NotParsed == [by |-> "none"]
NotClassified == [by |-> "none"]
NoReport == [book_id |-> "None"]
NotFormatted == [by |-> "none"]
NotStarted == [pc |-> "idle"]
NotInserted == [returned |-> "None"]
NoResponseYet == [handler |-> "none"]

Init ==
    /\ remotePage \in PageSet
    /\ remoteFrag \in FragSet
    /\ session = {}
    /\ lastCall = NoCall
    /\ table = NoTable
    /\ parsed = NotParsed
    /\ cell = NoCell
    /\ classified = NotClassified
    /\ reportIn = NoReport
    /\ message = NotFormatted
    /\ scrape = NotStarted
    /\ db = EmptyStore
    /\ inserted = NotInserted
    /\ response = NoResponseYet

\* GET /api/books/{book_id}/availability (main.py check_book_availability)
check_book_availability(book_id) ==
    \E get \in GetOutcomes(remotePage), post \in PostOutcomes(remoteFrag) \cup {NotSent},
       dataDir \in DataDirs, random \in Randoms :
        /\ Ok(get) <=> post # NotSent
        /\ ~(post # NotSent /\ Ok(post)) => dataDir = "passes"
        /\ \E r \in {check_availability(book_id,
                        [jar |-> {"earlier" : c \in session},
                         get |-> get, post |-> post, dataDir |-> dataDir,
                         random |-> random])} :
              LET met == [book_id |-> book_id, get |-> Met(get), post |-> Met(post),
                          dataDir |-> dataDir, raised |-> r.raised, requests |-> r.requests]
              IN  /\ lastCall' = IF r.raised = "None"
                                 THEN met @@ [http_status |-> 200, report |-> r.report]
                                 ELSE met @@ [http_status |-> 500]
                  /\ session' = r.jar
        /\ UNCHANGED <<remotePage, remoteFrag, table, parsed, cell, classified,
                     reportIn, message, scrape,
                   db, inserted, response>>

Next == \E book_id \in BookIds : check_book_availability(book_id)

Spec == Init /\ [][Next]_vars

(***************************************************************************)
(* Properties of check_availability, stated on the latest invocation.      *)
(***************************************************************************)
Called == lastCall # NoCall
Returned == Called /\ "report" \in DOMAIN lastCall
PostSent == lastCall.post # NotSent

IsSeq(x) == DOMAIN x = 1..Len(x)

\* C1: whatever the page GET and the AJAX POST meet (success, timeout,
\* connection failure, non-2xx status, a body without a table), for every
\* record id, check_availability raises nothing and returns a report that
\* holds the requested book_id, a title and a list of locations.
C1_AlwaysAReport ==
    Called =>
        /\ lastCall.raised = "None"
        /\ "report" \in DOMAIN lastCall
        /\ {"book_id", "title", "locations"} \subseteq DOMAIN lastCall.report
        /\ lastCall.report.book_id = lastCall.book_id
        /\ IsSeq(lastCall.report.title)
        /\ IsSeq(lastCall.report.locations)

\* the page GET answered 200 and the POST timed out: a report all the same
C1_Witness ==
    /\ Returned
    /\ Ok(lastCall.get)
    /\ lastCall.post.kind = "timeout"
    /\ lastCall.report.locations = <<>>

\* C2: when the page GET times out or cannot connect, the report has error
\* set and no location, and the formatter turns it into the fixed apology.
C2_PageFailureApology ==
    (Called /\ lastCall.get.kind \in NoResponse) =>
        /\ "report" \in DOMAIN lastCall
        /\ "error" \in DOMAIN lastCall.report
        /\ lastCall.report.locations = <<>>
        /\ format_availability_message(lastCall.report) = Apology

C2_Witness ==
    /\ Returned
    /\ lastCall.get.kind = "timeout"
    /\ "error" \in DOMAIN lastCall.report
    /\ format_availability_message(lastCall.report) = Apology

\* C3: a network failure or a non-2xx status of either request of an
\* invocation, the page GET or the AJAX POST, yields a report with error set.
C3_EitherFailureSetsError ==
    (Called /\ (~Ok(lastCall.get) \/ (PostSent /\ ~Ok(lastCall.post)))) =>
        /\ "report" \in DOMAIN lastCall
        /\ "error" \in DOMAIN lastCall.report

\* what the AJAX step of the latest invocation yielded
AjaxYield ==
    IF PostSent /\ Ok(lastCall.post) /\ lastCall.dataDir = "passes"
    THEN _parse_ajax_locations(remoteFrag.tables)
    ELSE <<>>

\* the rows the static-page parser finds in the page that was fetched
StaticRows ==
    LET p == _parse_locations(remotePage.tables)
    IN  IF p.exc = "None" THEN p.value ELSE <<>>

\* C4: when the AJAX step yields no row and the fetched page has parseable
\* status rows, the report's locations are the rows parsed from the page.
C4_FallbackToStaticRows ==
    (Called /\ Ok(lastCall.get) /\ AjaxYield = <<>> /\ StaticRows # <<>>) =>
        /\ "report" \in DOMAIN lastCall
        /\ lastCall.report.locations = StaticRows

\* C5: no cookie state is shared between invocations: the page GET of an
\* invocation sends no cookie an earlier invocation received, and its AJAX
\* POST sends only cookies set by its own page GET.
C5_IsolatedSessions ==
    Called =>
        \A i \in 1..Len(lastCall.requests) :
            lastCall.requests[i].cookies \subseteq
                (IF lastCall.requests[i].method = "POST" THEN {"own"} ELSE {})

Methods == [i \in 1..Len(lastCall.requests) |-> lastCall.requests[i].method]

\* C6: within one invocation the POST is sent only after the page GET
\* returned a 2xx response, each request is sent at most once, and a failed
\* page GET returns the error report with no POST sent.
C6_GetThenPostOnce ==
    Called =>
        /\ Cardinality({i \in 1..Len(Methods) : Methods[i] = "GET"}) <= 1
        /\ Cardinality({i \in 1..Len(Methods) : Methods[i] = "POST"}) <= 1
        /\ \A i \in 1..Len(Methods) :
              Methods[i] = "POST" =>
                  /\ Ok(lastCall.get)
                  /\ \E j \in 1..(i - 1) : Methods[j] = "GET"
        /\ ~Ok(lastCall.get) =>
              /\ \A i \in 1..Len(Methods) : Methods[i] # "POST"
              /\ "report" \in DOMAIN lastCall
              /\ "error" \in DOMAIN lastCall.report

C6_Witness ==
    /\ Returned
    /\ Ok(lastCall.get)
    /\ Methods = <<"GET", "POST">>
    /\ lastCall.requests[2].id = lastCall.book_id

\* two outcomes of a request to the unchanged remote site that differ at most
\* in the Set-Cookie header
SameResponse(a, b) ==
    /\ a.kind = b.kind
    /\ a.kind = "response" => a.status = b.status

\* the latest invocation and the step's new one ask for the same record and
\* meet the same responses and the same local directory
SameCallAgain ==
    /\ Called
    /\ lastCall'.book_id = lastCall.book_id
    /\ SameResponse(lastCall'.get, lastCall.get)
    /\ SameResponse(lastCall'.post, lastCall.post)
    /\ lastCall'.dataDir = lastCall.dataDir

C12_PrimaryTableLocations ==
    (Called /\ Ok(lastCall.get) /\ remotePage.tables = <<PrimaryTable>>) =>
        /\ "report" \in DOMAIN lastCall
        /\ Len(lastCall.report.locations) = 5
        /\ \A i \in 1..Len(lastCall.report.locations) :
              lastCall.report.locations[i].status = "available"

\* the page has no table tagged tblData and one table under a heading that
\* contains "tel:"
HasHeadingBlock(page) ==
    /\ Len(page.tables) = 1
    /\ page.tables[1].cls # "tblData"
    /\ "heading" \in DOMAIN page.tables[1]
    /\ Contains(page.tables[1].heading, s_tel)

\* C13: for a page without a tblData table and with one heading block whose
\* heading contains "tel:", the report's locations are the data rows under
\* that block, each carrying the block's branch name (the heading up to its
\* first comma).
C13_HeadingBlockRows ==
    (Called /\ Ok(lastCall.get) /\ HasHeadingBlock(remotePage)) =>
        /\ "report" \in DOMAIN lastCall
        /\ Len(lastCall.report.locations) = Len(remotePage.tables[1].rows)
        /\ \A i \in 1..Len(lastCall.report.locations) :
              StartsAt(lastCall.report.locations[i].location, 1,
                       SplitFirst(remotePage.tables[1].heading, ","))

\* the page has a hidden title span inside div#divNaslov
HasHiddenTitle(page) == page.divNaslov /\ page.hidden # None

\* C14: when the fetched page has neither a name element nor a hidden title
\* span inside the title container, the report has title "Nepoznato" and no
\* error field.
C14_MissingTitleIsNepoznato ==
    (Called /\ Ok(lastCall.get) /\ remotePage.name = None /\ ~HasHiddenTitle(remotePage)) =>
        /\ "report" \in DOMAIN lastCall
        /\ lastCall.report.title = s_Nepoznato
        /\ "error" \notin DOMAIN lastCall.report

\* a page with the title container but no hidden span in it was fetched
C14_Witness ==
    /\ Returned
    /\ Ok(lastCall.get)
    /\ remotePage.name = None
    /\ remotePage.divNaslov
    /\ remotePage.hidden = None
    /\ lastCall.report.title = s_Nepoznato
    /\ "error" \notin DOMAIN lastCall.report

\* C15: when the page holds a name element (span itemprop=name) the report's
\* title is that element's text; the hidden span of div#divNaslov gives the
\* title only when the name element is absent.
C15_NameElementPreferred ==
    (Called /\ Ok(lastCall.get)) =>
        /\ "report" \in DOMAIN lastCall
        /\ remotePage.name # None => lastCall.report.title = Strip(remotePage.name)
        /\ (remotePage.name = None /\ HasHiddenTitle(remotePage)) =>
              lastCall.report.title = Strip(remotePage.hidden)

(***************************************************************************)
(* What the design says of a fragment's rows, for the statements that      *)
(* count rows: a branch marker has "tel:" in its first cell, a header has  *)
(* "Lokacija" there, a data row is any other row of three cells or more    *)
(* below a branch marker; a status cell is recognized when it holds the    *)
(* e-loan marker, an available or borrowed image, or one of the status     *)
(* words.                                                                  *)
(***************************************************************************)
IsMarkerRow(row) == row.cells # <<>> /\ Contains(get_text_strip(row.cells[1]), s_tel)

IsHeaderRow(row) == Len(row.cells) >= 3 /\ get_text_strip(row.cells[1]) = s_Lokacija

IsDataRowAt(rows, i) ==
    /\ Len(rows[i].cells) >= 3
    /\ ~IsMarkerRow(rows[i])
    /\ ~IsHeaderRow(rows[i])
    /\ \E j \in 1..(i - 1) : IsMarkerRow(rows[j])

Recognized(td) ==
    \/ td.lcp
    \/ /\ td.img # None
       /\ \/ Contains(Lower(td.img), s_za_posudbu)
          \/ Contains(Lower(td.img), s_posudjeno)
          \/ Contains(Lower(td.img), s_posudjeno_stroke)
    \/ Contains(Lower(get_text_strip(td)), s_provjerite_status)
    \/ Contains(Lower(get_text_strip(td)), s_posudjeno_stroke)
    \/ Contains(Lower(get_text_strip(td)), s_posudeno)
    \/ Contains(Lower(get_text_strip(td)), s_dostupno)

\* the latest invocation read the fragment's table
ParsedFragment ==
    /\ Returned
    /\ PostSent
    /\ Ok(lastCall.post)
    /\ lastCall.dataDir = "passes"
    /\ remoteFrag.tables # <<>>

FragmentRows == remoteFrag.tables[1].rows

\* C7: the number of locations returned equals the number of data rows whose
\* status cell is recognized; a data row with an unrecognized status cell is
\* dropped, never emitted with status unknown.
C7_OnlyRecognizedRows ==
    ParsedFragment =>
        Len(lastCall.report.locations) =
            Cardinality({i \in 1..Len(FragmentRows) :
                           /\ IsDataRowAt(FragmentRows, i)
                           /\ Recognized(FragmentRows[i].cells[3])})

\* C8: every data row whose status cell holds the token posudbaLCP is
\* returned as available with the e-loan note and no due date, whatever image
\* or text the cell also holds.
C8_MarkerBeforeImage ==
    ParsedFragment =>
        Cardinality({k \in 1..Len(lastCall.report.locations) :
                       /\ lastCall.report.locations[k].status = "available"
                       /\ lastCall.report.locations[k].note = n_E_knjiga
                       /\ lastCall.report.locations[k].due_date = None})
        = Cardinality({i \in 1..Len(FragmentRows) :
                         /\ IsDataRowAt(FragmentRows, i)
                         /\ FragmentRows[i].cells[3].lcp})

(***************************************************************************)
(* The status classifiers as pure functions: a status cell is drawn, then  *)
(* either classifier is applied to it.                                     *)
(***************************************************************************)
MaxParts == 3

t_Posudjeno_sp == <<"P", "o", "s", "u", "U+0111", "e", "n", "o", " ">>
t_POSUDENO_sp == <<"P", "O", "S", "U", "D", "E", "N", "O", " ">>
t_Dostupno_sp == <<"D", "o", "s", "t", "u", "p", "n", "o", " ">>
t_date1 == <<"1", "5", ".", "3", ".", "2", "0", "2", "5">>
t_date2 == <<"1", ".", "1", "2", ".", "2", "0", "2", "4">>
t_other_png == <<"o", "t", "h", "e", "r", ".", "p", "n", "g">>

TextParts == {t_date1, t_date2, <<"7">>, <<".">>, <<" ">>}
t_Provjerite_status_sp ==
    <<"P", "r", "o", "v", "j", "e", "r", "i", "t", "e", " ", "s", "t", "a", "t", "u", "s", " ">>
TextPrefixes == {<<>>, t_Posudjeno_sp, t_POSUDENO_sp, t_Dostupno_sp, t_Provjerite_status_sp}
Images == {None, t_za_posudbu_png, t_posudjeno_png, t_other_png}

CellSet ==
    {Td("", <<prefix \o Concat(parts)>>, img, lcp) :
        prefix \in TextPrefixes, parts \in SeqsUpTo(TextParts, MaxParts),
        img \in Images, lcp \in BOOLEAN}

InitCell ==
    /\ cell \in CellSet
    /\ classified = NotClassified
    /\ remotePage = [tables |-> <<>>]
    /\ remoteFrag = [tables |-> <<>>]
    /\ session = {}
    /\ lastCall = NoCall
    /\ table = NoTable
    /\ parsed = NotParsed
    /\ reportIn = NoReport
    /\ message = NotFormatted
    /\ scrape = NotStarted
    /\ db = EmptyStore
    /\ inserted = NotInserted
    /\ response = NoResponseYet

\* the cell as the status cell of an AJAX fragment row
ClassifyTd ==
    /\ classified' = [by |-> "_parse_td_status", info |-> _parse_td_status(cell, t_sig)]
    /\ UNCHANGED <<remotePage, remoteFrag, session, lastCall, table, parsed, cell,
                     reportIn, message, scrape,
                   db, inserted, response>>

\* the cell as the status cell of a primary-table row
ClassifyRow ==
    /\ classified' = [by |-> "_parse_row_status", info |-> _parse_row_status(DataRow(cell))]
    /\ UNCHANGED <<remotePage, remoteFrag, session, lastCall, table, parsed, cell,
                     reportIn, message, scrape,
                   db, inserted, response>>

NextCell == ClassifyTd \/ ClassifyRow

SpecCell == InitCell /\ [][NextCell]_vars

\* a date D.M.YYYY or DD.MM.YYYY stands at s[i..i+n-1]
IsDateAt(s, i, n) ==
    /\ i >= 1
    /\ i + n - 1 <= Len(s)
    /\ \E p \in {2, 3} : \E q \in {p + 2, p + 3} :
          /\ n = q + 4
          /\ \A k \in 1..n :
                IF k = p \/ k = q THEN s[i + k - 1] = "." ELSE s[i + k - 1] \in Digits

DatesIn(s) == {d \in (1..Len(s)) \X (8..10) : IsDateAt(s, d[1], d[2])}

FirstDate(s) ==
    LET d == CHOOSE d \in DatesIn(s) : \A e \in DatesIn(s) : d[1] <= e[1]
    IN  SubSeq(s, d[1], d[1] + d[2] - 1)

Classified == classified # NotClassified /\ classified.info # NoStatus

\* C9: a cell classified as borrowed whose text contains a date yields
\* due_date = the first such date and note 'Posudjeno do <date>'; without a
\* date it yields due_date = None and note 'Posudjeno'; a cell that is not
\* classified as borrowed never has a due date.
C9_DueDate ==
    Classified =>
        LET info == classified.info
            text == get_text_strip(cell)
        IN  IF info.status = "borrowed"
            THEN IF DatesIn(text) # {}
                 THEN /\ info.due_date = FirstDate(text)
                      /\ info.note = n_Posudjeno_do \o FirstDate(text)
                 ELSE /\ info.due_date = None
                      /\ info.note = n_Posudjeno
            ELSE "due_date" \in DOMAIN info => info.due_date = None

\* a borrowed cell with two dates, the later one first in the text
C9_Witness ==
    /\ Classified
    /\ classified.info.status = "borrowed"
    /\ Cardinality(DatesIn(get_text_strip(cell))) = 2
    /\ classified.info.due_date = t_date2
    /\ classified.info.note = n_Posudjeno_do \o t_date2

\* the image of the cell decides the status by itself
ActionableImage(td) ==
    /\ td.img # None
    /\ \/ Contains(Lower(td.img), s_za_posudbu)
       \/ Contains(Lower(td.img), s_dostupno)
       \/ Contains(Lower(td.img), s_posudjeno)
       \/ Contains(Lower(td.img), s_posudjeno_stroke)

\* the status the lowercased text of a cell stands for
TextDecides(td, info) ==
    LET text == Lower(get_text_strip(td))
    IN  IF Contains(text, s_provjerite_status)
        THEN info # NoStatus /\ info.status = "unknown"
        ELSE IF Contains(text, s_posudjeno_stroke) \/ Contains(text, s_posudeno)
        THEN info # NoStatus /\ info.status = "borrowed"
        ELSE IF Contains(text, s_dostupno)
        THEN info # NoStatus /\ info.status = "available" /\ info.note = n_Dostupno
        ELSE TRUE

\* C25: for a status cell without an actionable image and without the
\* posudbaLCP marker, the lowercased text decides the status of the row that
\* check_availability returns, which _parse_td_status classifies: containing
\* 'provjerite status' gives unknown, containing 'posudjeno' (with stroke or
\* plain d) gives borrowed, containing 'dostupno' gives available with note
\* 'Dostupno'.
C25_TextOnlyClassification ==
    (classified # NotClassified /\ classified.by = "_parse_td_status") =>
        ((~ActionableImage(cell) /\ ~cell.lcp) => TextDecides(cell, classified.info))

(***************************************************************************)
(* The two table parsers as pure functions: a table is drawn, then either  *)
(* parser is applied to the document that holds it.                        *)
(***************************************************************************)
MaxRows == 4

\* a data row that lacks its status cell
ShortRow == Tr(<<TextTd(t_dep), TextTd(t_sig)>>)

ParseRows ==
    {MarkerRow(t_Kastav), MarkerRow(t_Viskovo), HeaderRow,
     DataRow(c_available), DataRow(c_unrecognized),
     DataRow(Malformed(c_available)), ShortRow}

TableSet ==
    {Table(cls, "", rows) : cls \in {"tblData", ""}, rows \in SeqsUpTo(ParseRows, MaxRows)}

InitParse ==
    /\ table \in TableSet
    /\ parsed = NotParsed
    /\ remotePage = [tables |-> <<>>]
    /\ remoteFrag = [tables |-> <<>>]
    /\ session = {}
    /\ lastCall = NoCall
    /\ cell = NoCell
    /\ classified = NotClassified
    /\ reportIn = NoReport
    /\ message = NotFormatted
    /\ scrape = NotStarted
    /\ db = EmptyStore
    /\ inserted = NotInserted
    /\ response = NoResponseYet

\* the table as the body of the getLokacije answer
ParseAjax ==
    /\ parsed' = [by |-> "_parse_ajax_locations", exc |-> "None",
                  value |-> _parse_ajax_locations(<<table>>)]
    /\ UNCHANGED <<remotePage, remoteFrag, session, lastCall, table, cell, classified,
                     reportIn, message, scrape,
                   db, inserted, response>>

\* the table as the table of the record page
ParseStatic ==
    /\ parsed' = [by |-> "_parse_locations"] @@ _parse_locations(<<table>>)
    /\ UNCHANGED <<remotePage, remoteFrag, session, lastCall, table, cell, classified,
                     reportIn, message, scrape,
                   db, inserted, response>>

NextParse == ParseAjax \/ ParseStatic

SpecParse == InitParse /\ [][NextParse]_vars

\* the name a branch-marker row gives: the text before the first comma
BranchNameOf(row) == Strip(SplitFirst(get_text_strip(row.cells[1]), ","))

IsPlainDataRow(row) ==
    /\ Len(row.cells) >= 3
    /\ ~IsMarkerRow(row)
    /\ ~IsHeaderRow(row)
    /\ ~Raises(row.cells[3])
    /\ Recognized(row.cells[3])

\* rows are a branch marker, n data rows, a branch marker, one data row or more
BranchCarryShape(rows, n) ==
    /\ n >= 1
    /\ Len(rows) >= n + 3
    /\ IsMarkerRow(rows[1])
    /\ IsMarkerRow(rows[n + 2])
    /\ \A i \in 1..Len(rows) : (i # 1 /\ i # n + 2) => IsPlainDataRow(rows[i])

\* the locations are one per data row, in order, under the branch above the row
BranchCarried(rows, n, locations) ==
    /\ Len(locations) = Len(rows) - 2
    /\ \A k \in 1..Len(locations) :
          LET i == IF k <= n THEN k + 1 ELSE k + 2
              branch == IF k <= n THEN BranchNameOf(rows[1]) ELSE BranchNameOf(rows[n + 2])
          IN  locations[k].location =
                  branch \o s_open \o get_text_strip(rows[i].cells[1]) \o s_close

\* the parser that was applied could read the table
Applied ==
    /\ parsed # NotParsed
    /\ parsed.by = "_parse_locations" => table.cls = "tblData"

\* C10: for a table of a branch-marker row, N data rows, a second
\* branch-marker row and M data rows, exactly N+M locations are emitted, the
\* first N under the first branch name and the next M under the second.
C10_BranchCarry ==
    Applied =>
        \A n \in 1..MaxRows :
            BranchCarryShape(table.rows, n) =>
                /\ parsed.exc = "None"
                /\ BranchCarried(table.rows, n, parsed.value)

\* the same statement of the AJAX fragment parser alone, which satisfies it
BranchCarryAjax ==
    (parsed # NotParsed /\ parsed.by = "_parse_ajax_locations") =>
        \A n \in 1..MaxRows :
            BranchCarryShape(table.rows, n) =>
                BranchCarried(table.rows, n, parsed.value)

BranchCarryAjaxCase ==
    /\ parsed # NotParsed
    /\ parsed.by = "_parse_ajax_locations"
    /\ BranchCarryShape(table.rows, 1)
    /\ Len(table.rows) = 4
    /\ BranchNameOf(table.rows[1]) # BranchNameOf(table.rows[3])
    /\ Len(parsed.value) = 2

ParsedAjax == parsed # NotParsed /\ parsed.by = "_parse_ajax_locations"

\* the rows of three cells or more, other than markers and the header, that
\* stand below a branch-marker row
RowsUnderBranch(rows) ==
    {i \in 1..Len(rows) :
        /\ Len(rows[i].cells) >= 3
        /\ ~IsMarkerRow(rows[i])
        /\ ~IsHeaderRow(rows[i])
        /\ \E j \in 1..(i - 1) : IsMarkerRow(rows[j])}

\* the name of the last branch-marker row above row i
BranchAbove(rows, i) ==
    LET above == {j \in 1..(i - 1) : IsMarkerRow(rows[j])}
    IN  BranchNameOf(rows[CHOOSE j \in above : \A k \in above : k <= j])

\* the k-th smallest member of a set of row indexes
Nth(S, k) == CHOOSE i \in S : Cardinality({j \in S : j <= i}) = k

\* C21: when the classification of one row fails (a missing status cell, a
\* cell whose markup makes the classifier raise) only that row is dropped:
\* the fragment parser does not raise and emits every other data row under
\* a branch, in the order of the rows, with the status of its cell.
C21_FailedRowOnlyDropped ==
    ParsedAjax =>
        LET rows == table.rows
            kept == {i \in RowsUnderBranch(rows) : ~Raises(rows[i].cells[3])}
        IN  /\ parsed.exc = "None"
            /\ Len(parsed.value) = Cardinality(kept)
            /\ \A k \in 1..Len(parsed.value) :
                  LET row == rows[Nth(kept, k)]
                  IN  /\ parsed.value[k].status =
                            _parse_td_status(row.cells[3], get_text_strip(row.cells[2])).status
                      /\ parsed.value[k].location =
                            BranchAbove(rows, Nth(kept, k)) \o s_open
                                \o get_text_strip(row.cells[1]) \o s_close

\* a malformed row and a short row between two rows that are emitted
C21_Witness ==
    /\ ParsedAjax
    /\ Len(table.rows) = 4
    /\ IsMarkerRow(table.rows[1])
    /\ table.rows[2] = DataRow(c_unrecognized)
    /\ \/ table.rows[3] = DataRow(Malformed(c_available))
       \/ table.rows[3] = ShortRow
    /\ table.rows[4] = DataRow(c_available)
    /\ Len(parsed.value) = 2
    /\ parsed.value[1].status = "unknown"
    /\ parsed.value[2].status = "available"

\* C26: the fragment parser emits a data row only under a current location:
\* every emitted entry stems from a row of three cells or more below a
\* branch-marker row; rows above the first marker and the header row, whose
\* first cell is 'Lokacija', are never emitted.
C26_OnlyUnderCurrentLocation ==
    ParsedAjax =>
        LET rows == table.rows
        IN  /\ Len(parsed.value) <= Cardinality(RowsUnderBranch(rows))
            /\ \A k \in 1..Len(parsed.value) :
                  /\ parsed.value[k].signature # s_Signatura
                  /\ \E i \in RowsUnderBranch(rows) :
                        /\ parsed.value[k].location =
                              BranchAbove(rows, i) \o s_open
                                  \o get_text_strip(rows[i].cells[1]) \o s_close
                        /\ parsed.value[k].signature = get_text_strip(rows[i].cells[2])

\* a data row above the first marker, a header below it, then a data row
C26_Witness ==
    /\ ParsedAjax
    /\ Len(table.rows) = 4
    /\ table.rows[1] = DataRow(c_available)
    /\ IsMarkerRow(table.rows[2])
    /\ IsHeaderRow(table.rows[3])
    /\ table.rows[4] = DataRow(c_unrecognized)
    /\ Len(parsed.value) = 1
    /\ parsed.value[1].status = "unknown"

(***************************************************************************)
(* The formatter as a function: format_availability_message applied to one *)
(* report.                                                                 *)
(***************************************************************************)
MaxLocs == 2

t_Kastav_281 == t_Kastav \o s_open \o t_dep \o s_close

Statuses == {"available", "borrowed", "unknown"}

\* entries of a locations list, as _parse_ajax_locations builds them
LocSet ==
    {[location |-> t_Kastav_281, signature |-> t_sig, status |-> st,
      note |-> <<>>, due_date |-> d] :
        st \in Statuses, d \in {None, t_date1}}

ReportSet ==
    LET plain == {[book_id |-> "428003512", title |-> t, locations |-> ls] :
                    t \in {t_Ana, s_Greska}, ls \in SeqsUpTo(LocSet, MaxLocs)}
    IN  plain \cup {r @@ [error |-> e] : r \in plain, e \in {"ReadTimeout", "HTTPError"}}

InitFormat ==
    /\ reportIn \in ReportSet
    /\ message = NotFormatted
    /\ remotePage = [tables |-> <<>>]
    /\ remoteFrag = [tables |-> <<>>]
    /\ session = {}
    /\ lastCall = NoCall
    /\ table = NoTable
    /\ parsed = NotParsed
    /\ cell = NoCell
    /\ classified = NotClassified
    /\ scrape = NotStarted
    /\ db = EmptyStore
    /\ inserted = NotInserted
    /\ response = NoResponseYet

\* checker.format_availability_message(availability), as main.py calls it
Format ==
    /\ message = NotFormatted
    /\ message' = [by |-> "format_availability_message",
                   text |-> format_availability_message(reportIn)]
    /\ UNCHANGED <<remotePage, remoteFrag, session, lastCall, table, parsed, cell,
                   classified, reportIn, scrape,
                   db, inserted, response>>

NextFormat == Format

SpecFormat == InitFormat /\ [][NextFormat]_vars

Formatted == message # NotFormatted
HasError == "error" \in DOMAIN reportIn
IsLink(piece) == "link" \in DOMAIN piece

\* C16: for any report with error set the formatter returns the one apology
\* sentence, whatever error, title and locations are; no value of the
\* report, the error text included, appears in the output.
C16_ErrorGivesApologyOnly ==
    (Formatted /\ HasError) =>
        /\ message.text = Apology
        /\ Len(message.text) = 1
        /\ \A k \in 1..Len(message.text) : "txt" \notin DOMAIN message.text[k]

\* an error report that carries a title and locations all the same
C16_Witness ==
    /\ Formatted
    /\ HasError
    /\ reportIn.error = "HTTPError"
    /\ reportIn.title = t_Ana
    /\ Len(reportIn.locations) = MaxLocs
    /\ message.text = Apology

\* C17: for a report without error and without locations the formatter
\* returns a sentence that names the title and holds a link back to the
\* catalog search.
C17_EmptyNamesTitleAndLink ==
    (Formatted /\ ~HasError /\ reportIn.locations = <<>>) =>
        /\ \E k \in 1..Len(message.text) : message.text[k] = Txt(reportIn.title)
        /\ \E k \in 1..Len(message.text) : IsLink(message.text[k])

\* the glyphs the formatter knows
Glyphs == {StatusGlyph([status |-> st]) : st \in Statuses}

\* where the glyphs stand in the message
GlyphAt == {k \in 1..Len(message.text) : message.text[k] \in Glyphs}

\* the i-th block: from its glyph up to the piece before the next glyph
BlockStart(i) == CHOOSE k \in GlyphAt : Cardinality({j \in GlyphAt : j < k}) = i - 1
BlockEnd(i) ==
    IF i < Cardinality(GlyphAt) THEN BlockStart(i + 1) - 1 ELSE Len(message.text)
BlockOf(i) == SubSeq(message.text, BlockStart(i), BlockEnd(i))
Holds(pieces, piece) == \E k \in 1..Len(pieces) : pieces[k] = piece

StatusClass(loc) == IF loc.status \in {"available", "borrowed"} THEN loc.status ELSE "other"

\* C18: for a report without error and with n >= 1 locations the message is
\* a header with the title and then exactly n blocks in the order of the
\* locations; each block has a glyph that tells available, borrowed and any
\* other status apart, the location name, the signature, and the due date
\* exactly when the status is borrowed and a due date is present.
C18_HeaderThenBlocks ==
    (Formatted /\ ~HasError /\ reportIn.locations # <<>>) =>
        LET locs == reportIn.locations
            n == Len(locs)
        IN  /\ Cardinality(GlyphAt) = n
            /\ Holds(SubSeq(message.text, 1, BlockStart(1) - 1), Txt(reportIn.title))
            /\ \A i \in 1..n :
                  /\ Holds(BlockOf(i), Txt(locs[i].location))
                  /\ Holds(BlockOf(i), Txt(locs[i].signature))
                  /\ Holds(BlockOf(i), Txt(locs[i].due_date))
                        <=> (locs[i].status = "borrowed" /\ locs[i].due_date # None)
                  /\ \A j \in 1..n :
                        (BlockOf(i)[1] = BlockOf(j)[1])
                            <=> (StatusClass(locs[i]) = StatusClass(locs[j]))

\* a borrowed copy with a due date, then a copy of unknown status
C18_Witness ==
    /\ Formatted
    /\ ~HasError
    /\ Len(reportIn.locations) = 2
    /\ reportIn.locations[1].status = "borrowed"
    /\ reportIn.locations[1].due_date = t_date1
    /\ reportIn.locations[2].status = "unknown"
    /\ Holds(BlockOf(1), Txt(t_date1))
    /\ ~Holds(BlockOf(2), Txt(t_date1))

\* C19: for a report without error and with at least one location the
\* message ends with a link to the catalog.
C19_EndsWithCatalogLink ==
    (Formatted /\ ~HasError /\ reportIn.locations # <<>>) =>
        IsLink(message.text[Len(message.text)])

(***************************************************************************)
(* The bulk import, LibraryScraper.scrape_catalog_full                     *)
(* (src/scraper/library_scraper.py).  A run is                             *)
(*   [pc, page, max_books, delay, basic_books, i, detailed_books, log]     *)
(* pc: "idle" before the call, "loop" inside the for loop, "returned"      *)
(* after it; i: the loop counter of enumerate(basic_books, 1); log: what   *)
(* the run did to the outside, a detail fetch [ev |-> "fetch", id] or a    *)
(* pause [ev |-> "sleep", secs].  delay is in tenths of a second.          *)
(***************************************************************************)
MaxBooks == 4

\* delay=1.5 of the script (line 205) and the default 2.0 (line 108)
Delays == {15, 20}

MaxLinks == 3

s_slash_sep == <<" ", "/", " ">>
t_Ana_by_Bob == t_Ana \o s_slash_sep \o t_Bob

CatalogIds == BookIds \cup {"428003514"}

\* an <a> of the results page whose href contains 'bibliografskiZapis':
\* selectedId is the number in the href, NoneId without one; alt is the alt
\* text of its <img>, None without an <img>
Link(selectedId, alt) == [selectedId |-> selectedId, alt |-> alt]

LinkSet ==
    {Link(id, t_Ana_by_Bob) : id \in CatalogIds \cup {NoneId}}
    \cup {Link("428003512", t_Bob), Link("428003513", None)}

\* what the GET of the results page may meet: no response, or a page of links
ResultsPages ==
    {[kind |-> "timeout"]}
    \cup {[kind |-> "response", links |-> ls] : ls \in SeqsUpTo(LinkSet, MaxLinks)}

NoInfo == [id |-> "no book_info"]

\* LibraryScraper.extract_book_info; of the fields of book_info the id and
\* the title are kept
extract_book_info(link_element) ==
    IF link_element.alt = None THEN NoInfo
    ELSE LET alt_text == link_element.alt
             cut == Find(alt_text, s_slash_sep)
             first == IF cut = 0 THEN alt_text ELSE SubSeq(alt_text, 1, cut - 1)
         IN  [id |-> link_element.selectedId, title |-> Strip(first)]

RECURSIVE NewBooksLoop(_, _, _, _)
\* the for loop of get_new_books (lines 92-99)
NewBooksLoop(book_links, books, seen_ids, max_books) ==
    IF book_links = <<>> THEN books
    ELSE LET book_info == extract_book_info(Head(book_links))
         IN  IF book_info # NoInfo /\ book_info.id \notin seen_ids
             THEN IF Len(books) + 1 >= max_books
                  THEN Append(books, book_info)
                  ELSE NewBooksLoop(Tail(book_links), Append(books, book_info),
                                    seen_ids \cup {book_info.id}, max_books)
             ELSE NewBooksLoop(Tail(book_links), books, seen_ids, max_books)

\* LibraryScraper.get_new_books
get_new_books(page, max_books) ==
    IF page.kind \in NoResponse THEN <<>>
    ELSE NewBooksLoop(page.links, <<>>, {}, max_books)

\* what the detail GET of one record may meet
DetailOutcomes ==
    {[kind |-> "timeout"],
     [kind |-> "response", status |-> 404, set_cookie |-> FALSE,
      body |-> Page(None, FALSE, None, <<>>)],
     [kind |-> "response", status |-> 200, set_cookie |-> FALSE,
      body |-> Page(t_Bob, TRUE, t_Ana, <<>>)]}

\* BookDetailParser.parse_book_detail; of the fields of book_data the id and
\* the title are kept
parse_book_detail(book_id, outcome) ==
    IF outcome.kind \in NoResponse \/ RaisesForStatus(outcome.status)
    THEN [id |-> book_id, error |-> ErrorText(outcome)]
    ELSE [id |-> book_id, title |-> _extract_title(outcome.body)]

\* a loop body that pauses only after a detail fetch that succeeded
LoopBody_pause_on_success(run, outcome) ==
    LET book == run.basic_books[run.i]
        details == parse_book_detail(book.id, outcome)
        fetched == Append(run.log, [ev |-> "fetch", id |-> book.id])
    IN  [run EXCEPT
           !.detailed_books = Append(@, details @@ book),
           !.log = IF run.i < Len(run.basic_books) /\ "error" \notin DOMAIN details
                   THEN Append(fetched, [ev |-> "sleep", secs |-> run.delay])
                   ELSE fetched,
           !.i = @ + 1,
           !.pc = IF run.i < Len(run.basic_books) THEN "loop" ELSE "returned"]

\* one pass of the for loop of scrape_catalog_full (lines 128-145)
LoopBody(run, outcome) ==
    LET book == run.basic_books[run.i]
        details == parse_book_detail(book.id, outcome)
        fetched == Append(run.log, [ev |-> "fetch", id |-> book.id])
    IN  [run EXCEPT
           !.detailed_books = Append(@, details @@ book),
           !.log = IF run.i < Len(run.basic_books)
                   THEN Append(fetched, [ev |-> "sleep", secs |-> run.delay])
                   ELSE fetched,
           !.i = @ + 1,
           !.pc = IF run.i < Len(run.basic_books) THEN "loop" ELSE "returned"]

InitScrape ==
    /\ scrape = NotStarted
    /\ remotePage = [tables |-> <<>>]
    /\ remoteFrag = [tables |-> <<>>]
    /\ session = {}
    /\ lastCall = NoCall
    /\ table = NoTable
    /\ parsed = NotParsed
    /\ cell = NoCell
    /\ classified = NotClassified
    /\ reportIn = NoReport
    /\ message = NotFormatted
    /\ db = EmptyStore
    /\ inserted = NotInserted
    /\ response = NoResponseYet

\* the call and the lines before the loop (116-126)
scrape_catalog_full(page, max_books, delay) ==
    /\ scrape.pc = "idle"
    /\ scrape' = [pc |-> IF get_new_books(page, max_books) = <<>>
                         THEN "returned" ELSE "loop",
                  page |-> page,
                  max_books |-> max_books,
                  delay |-> delay,
                  basic_books |-> get_new_books(page, max_books),
                  i |-> 1,
                  detailed_books |-> <<>>,
                  log |-> <<>>]
    /\ UNCHANGED <<remotePage, remoteFrag, session, lastCall, table, parsed, cell,
                   classified, reportIn, message,
                   db, inserted, response>>

\* one pass of the loop
scrape_next_book ==
    /\ scrape.pc = "loop"
    /\ \E outcome \in DetailOutcomes : scrape' = LoopBody(scrape, outcome)
    /\ UNCHANGED <<remotePage, remoteFrag, session, lastCall, table, parsed, cell,
                   classified, reportIn, message,
                   db, inserted, response>>

NextScrape ==
    \/ \E page \in ResultsPages, max_books \in 0..MaxBooks, delay \in Delays :
          scrape_catalog_full(page, max_books, delay)
    \/ scrape_next_book

SpecScrape == InitScrape /\ [][NextScrape]_vars

FetchAt == {k \in 1..Len(scrape.log) : scrape.log[k].ev = "fetch"}

\* C20: in scrape_catalog_full a pause of the configured length lies between
\* every two consecutive detail fetches, whether or not a fetch failed, and
\* no pause follows the last record.
C20_DelayBetweenFetches ==
    scrape.pc # "idle" =>
        /\ \A a, b \in FetchAt :
              (a < b /\ \A c \in FetchAt : ~(a < c /\ c < b)) =>
                  \E m \in (a + 1)..(b - 1) :
                      scrape.log[m] = [ev |-> "sleep", secs |-> scrape.delay]
        /\ scrape.pc = "returned" =>
              /\ Cardinality(FetchAt) = Len(scrape.basic_books)
              /\ scrape.log # <<>> => scrape.log[Len(scrape.log)].ev = "fetch"

\* a finished run of three records whose second detail fetch failed
C20_Witness ==
    /\ scrape.pc = "returned"
    /\ Len(scrape.basic_books) = 3
    /\ "error" \in DOMAIN scrape.detailed_books[2]
    /\ Cardinality(FetchAt) = 3
    /\ Len(scrape.log) = 5

\* the links of the results page that carry an image, by position
BookLinksOf(page) ==
    IF page.kind \in NoResponse THEN {}
    ELSE {i \in 1..Len(page.links) : page.links[i].alt # None}

\* the positions at which an id appears for the first time
FirstAppearances(page) ==
    {i \in BookLinksOf(page) :
        \A j \in BookLinksOf(page) :
            j < i => page.links[j].selectedId # page.links[i].selectedId}

\* books are the books of the first appearances, in page order, cut at limit
InPageOrder(page, books, limit) ==
    LET first == FirstAppearances(page)
        rank(i) == Cardinality({j \in first : j <= i})
    IN  /\ Len(books) = IF Cardinality(first) <= limit THEN Cardinality(first) ELSE limit
        /\ \A i \in first :
              rank(i) <= Len(books) => books[rank(i)] = extract_book_info(page.links[i])

OnePerBook(basic_books, detailed_books) ==
    /\ Len(detailed_books) = Len(basic_books)
    /\ \A k \in 1..Len(basic_books) : detailed_books[k].id = basic_books[k].id

\* C30: get_new_books returns at most max_books entries, no two with the
\* same id, in the order in which their links first appear on the page;
\* scrape_catalog_full returns exactly one entry per book of get_new_books,
\* in the same order, also when a detail fetch fails.
C30_BoundedDistinctOrdered ==
    scrape.pc # "idle" =>
        /\ Len(scrape.basic_books) <= scrape.max_books
        /\ \A a, b \in 1..Len(scrape.basic_books) :
              a # b => scrape.basic_books[a].id # scrape.basic_books[b].id
        /\ InPageOrder(scrape.page, scrape.basic_books, scrape.max_books)
        /\ scrape.pc = "returned" => OnePerBook(scrape.basic_books, scrape.detailed_books)

\* the same for a positive max_books
BoundedForPositiveLimit ==
    (scrape.pc # "idle" /\ scrape.max_books >= 1) =>
        /\ Len(scrape.basic_books) <= scrape.max_books
        /\ \A a, b \in 1..Len(scrape.basic_books) :
              a # b => scrape.basic_books[a].id # scrape.basic_books[b].id
        /\ InPageOrder(scrape.page, scrape.basic_books, scrape.max_books)
        /\ scrape.pc = "returned" => OnePerBook(scrape.basic_books, scrape.detailed_books)

\* a page of three links for two books, the limit reached at the second, and
\* a run that ended after a failed detail fetch
BoundedForPositiveLimitCase ==
    /\ scrape.pc = "returned"
    /\ scrape.max_books = 2
    /\ Cardinality(FirstAppearances(scrape.page)) = 3
    /\ Len(scrape.page.links) = 3
    /\ Len(scrape.detailed_books) = 2
    /\ "error" \in DOMAIN scrape.detailed_books[1]

(***************************************************************************)
(* The store under a sequence of insert_book calls, as import_from_json    *)
(* and the scripts make them.  inserted is                                 *)
(*   [book_data, failAt, returned, latest]                                 *)
(* latest: for every id the book_data of the latest call that returned     *)
(* True for it, NoData before the first.                                   *)
(***************************************************************************)
MaxStoreRows == 3

t_Eva_ur == <<"E", "v", "a", " ", "(", "u", "r", ")">>
t_Eva == <<"E", "v", "a">>

AllIds == BookIds \cup {NoneId}

\* a record of the catalog file with every list filled
FullBook(id) ==
    [id |-> id, title |-> t_Ana, author |-> t_Bob,
     other_authors |-> <<t_Eva_ur, t_Eva>>, subjects |-> <<"roman">>,
     tags |-> <<"novo">>,
     classifications |-> <<[code |-> "821", description |-> "knjizevnost"]>>,
     notes |-> <<"prijevod">>]

\* a record whose detail fetch failed: the basic fields and the error
BareBook(id) == [id |-> id, title |-> t_Bob, author |-> t_Ana, error |-> "ReadTimeout"]

\* a record without a title
UntitledBook(id) == [id |-> id, author |-> t_Ana, subjects |-> <<"roman">>]

BookDataSet ==
    {FullBook(id) : id \in AllIds} \cup {BareBook(id) : id \in AllIds}
    \cup {UntitledBook("428003512")}

NoData == [id |-> "no insert yet"]

InitStore ==
    /\ db = EmptyStore
    /\ inserted = NotInserted
    /\ remotePage = [tables |-> <<>>]
    /\ remoteFrag = [tables |-> <<>>]
    /\ session = {}
    /\ lastCall = NoCall
    /\ table = NoTable
    /\ parsed = NotParsed
    /\ cell = NoCell
    /\ classified = NotClassified
    /\ reportIn = NoReport
    /\ message = NotFormatted
    /\ scrape = NotStarted
    /\ response = NoResponseYet

\* db.insert_book(book), one book of import_from_json's loop
db_insert_book(book_data, failAt) ==
    /\ \/ Len(db.working.books) < MaxStoreRows
       \/ \E i \in 1..Len(db.working.books) : SqlEq(db.working.books[i].id, book_data.id)
    /\ \E r \in {insert_book(db, book_data, failAt)} :
          /\ db' = r.store
          /\ inserted' =
                [book_data |-> book_data, failAt |-> failAt, returned |-> r.returned,
                 latest |->
                    LET before == IF inserted = NotInserted
                                  THEN [id \in AllIds |-> NoData]
                                  ELSE inserted.latest
                    IN  IF r.returned
                        THEN [before EXCEPT ![book_data.id] = book_data]
                        ELSE before]
    /\ UNCHANGED <<remotePage, remoteFrag, session, lastCall, table, parsed, cell,
                   classified, reportIn, message, scrape, response>>

NextStore ==
    \E book_data \in BookDataSet :
        \E failAt \in 0..(Len(Statements(book_data)) + 1) :
            db_insert_book(book_data, failAt)

SpecStore == InitStore /\ [][NextStore]_vars

RECURSIVE RowsOf(_, _)
\* the rows of a table that carry the id, NoneId counted as an id
RowsOf(rows, id) ==
    IF rows = <<>> THEN <<>>
    ELSE LET r == Head(rows)
             key == IF "book_id" \in DOMAIN r THEN r.book_id ELSE r.id
         IN  IF key = id THEN <<r>> \o RowsOf(Tail(rows), id) ELSE RowsOf(Tail(rows), id)

\* the rows a call was to write are all in the tables
Written(tables, book_data) ==
    /\ \E i \in 1..Len(tables.books) :
          /\ tables.books[i].id = Get(book_data, "id", NoneId)
          /\ tables.books[i].title = book_data.title
    /\ \A i \in 1..Len(RelatedTables) :
          LET rows == RelatedRows(book_data, RelatedTables[i])
          IN  \A k \in 1..Len(rows) :
                \E j \in 1..Len(tables[RelatedTables[i]]) :
                    tables[RelatedTables[i]][j] = rows[k]

\* C28: insert_book is atomic: a call in which a statement fails returns
\* False and leaves the store, books and every related table, as it was
\* before the call; a call that returns True has committed the books row
\* and all its related rows together.
C28_InsertIsAtomic ==
    [][inserted' # NotInserted =>
          /\ ~inserted'.returned => db' = db
          /\ inserted'.returned =>
                /\ db'.committed = db'.working
                /\ Written(db'.committed, inserted'.book_data)]_vars

\* a call that failed at a late statement, after its first statements
\* replaced the books row and deleted related rows of a stored book
C28_Witness ==
    /\ inserted # NotInserted
    /\ ~inserted.returned
    /\ inserted.failAt > Len(RelatedTables) + 1
    /\ inserted.latest[inserted.book_data.id] # NoData
    /\ inserted.latest[inserted.book_data.id] # inserted.book_data
    /\ Written(db.working, inserted.latest[inserted.book_data.id])

\* C29: after any sequence of insert_book calls the store holds at most one
\* books row per id, and the rows of the related tables for an id are
\* exactly those of the latest successful insert for that id.
C29_ReplacesNotAccumulates ==
    inserted # NotInserted =>
        \A id \in AllIds :
            /\ Len(RowsOf(db.working.books, id)) <= 1
            /\ \A i \in 1..Len(RelatedTables) :
                  RowsOf(db.working[RelatedTables[i]], id) =
                      IF inserted.latest[id] = NoData THEN <<>>
                      ELSE RelatedRows(inserted.latest[id], RelatedTables[i])

\* the same for the books that have an id
ReplacesForKeyedBooks ==
    inserted # NotInserted =>
        \A id \in BookIds :
            /\ Len(RowsOf(db.working.books, id)) <= 1
            /\ \A i \in 1..Len(RelatedTables) :
                  RowsOf(db.working[RelatedTables[i]], id) =
                      IF inserted.latest[id] = NoData THEN <<>>
                      ELSE RelatedRows(inserted.latest[id], RelatedTables[i])

\* a book with an id was inserted a second time, with other lists
ReplacesForKeyedBooksCase ==
    /\ inserted # NotInserted
    /\ inserted.returned
    /\ inserted.book_data = BareBook("428003512")
    /\ Len(db.working.books) = MaxStoreRows

(***************************************************************************)
(* The HTTP interface (src/api/main.py).  A request is                     *)
(*   [method, path, ...]: path the sequence of the segments of the URL     *)
(*   path, message the body of a chat request, query and limit those of a  *)
(*   search, limit the query parameter of the popular list.                *)
(* response is the answer to the latest request:                           *)
(*   [request, endpoint, status, generated, checked, requests, ...]        *)
(* endpoint: the function the router ran; generated: generate_response was *)
(* called; checked: the ids check_availability was called with; requests:  *)
(* what was sent to the remote site.                                       *)
(***************************************************************************)
MaxLimit == 2

\* the routes in the order main.py registers them
Routes ==
    <<[method |-> "GET", path |-> <<"api">>, endpoint |-> "api_root"],
      [method |-> "GET", path |-> <<"api", "health">>, endpoint |-> "health_check"],
      [method |-> "GET", path |-> <<"api", "books", "{book_id}", "availability">>,
       endpoint |-> "check_book_availability"],
      [method |-> "POST", path |-> <<"api", "chat">>, endpoint |-> "chat"],
      [method |-> "POST", path |-> <<"api", "books", "search">>, endpoint |-> "search_books"],
      [method |-> "GET", path |-> <<"api", "books", "{book_id}">>, endpoint |-> "get_book"],
      [method |-> "GET", path |-> <<"api", "books", "popular">>,
       endpoint |-> "get_popular_books"]>>

\* a path parameter matches any one segment
IsParam(segment) == segment = "{book_id}"

Matches(route, request) ==
    /\ route.method = request.method
    /\ Len(route.path) = Len(request.path)
    /\ \A i \in 1..Len(route.path) :
          IsParam(route.path[i]) \/ route.path[i] = request.path[i]

\* the router takes the first route that matches; 0 when none does
RouteOf(request) ==
    IF \E i \in 1..Len(Routes) : Matches(Routes[i], request)
    THEN CHOOSE i \in 1..Len(Routes) :
            /\ Matches(Routes[i], request)
            /\ \A j \in 1..(i - 1) : ~Matches(Routes[j], request)
    ELSE 0

\* the value of the path parameter book_id
PathParam(route, request) ==
    request.path[CHOOSE i \in 1..Len(route.path) : IsParam(route.path[i])]

\* rows[:n]
Take(rows, n) == IF Len(rows) <= n THEN rows ELSE SubSeq(rows, 1, n)

\* LIKE folds the case of the ASCII letters only
SqlLower(s) == [i \in 1..Len(s) |-> IF s[i] = "U+0110" THEN s[i] ELSE LowerChar(s[i])]

\* value LIKE '%query%'; NULL is like nothing
Like(value, query) == value # None /\ Contains(SqlLower(value), SqlLower(query))

\* DatabaseManager.search_books; the rows carry no isbn
search_books(tables, query, limit) ==
    Take(SelectSeq(tables.books, LAMBDA row : Like(row.title, query) \/ Like(row.author, query)),
         limit)

\* DatabaseManager.get_all_books
get_all_books(tables, limit) == Take(tables.books, limit)

NoBook == [id |-> "no such book"]

\* DatabaseManager.get_book_by_id
get_book_by_id(tables, book_id) ==
    LET found == SelectSeq(tables.books, LAMBDA row : SqlEq(row.id, book_id))
        authors == SelectSeq(tables.book_authors, LAMBDA row : SqlEq(row.book_id, book_id))
        subjects == SelectSeq(tables.book_subjects, LAMBDA row : SqlEq(row.book_id, book_id))
        tags == SelectSeq(tables.book_tags, LAMBDA row : SqlEq(row.book_id, book_id))
    IN  IF found = <<>> THEN NoBook
        ELSE found[1] @@
             [other_authors |->
                 [i \in 1..Len(authors) |->
                     authors[i].author_name \o s_open \o authors[i].author_role \o s_close],
              subjects |-> [i \in 1..Len(subjects) |-> subjects[i].subject],
              tags |-> [i \in 1..Len(tags) |-> tags[i].tag]]

\* \w of the re module, on the characters of the model
WordChars ==
    {UpperChars[i] : i \in 1..Len(UpperChars)} \cup {LowerChars[i] : i \in 1..Len(LowerChars)}
    \cup Digits \cup {"_"}

RECURSIVE Words(_)
\* re.findall(r'\w+', s)
Words(s) ==
    IF s = <<>> THEN <<>>
    ELSE IF s[1] \notin WordChars THEN Words(Tail(s))
    ELSE LET ends == {n \in 1..Len(s) :
                        /\ \A k \in 1..n : s[k] \in WordChars
                        /\ n = Len(s) \/ s[n + 1] \notin WordChars}
             n == CHOOSE n \in ends : TRUE
         IN  <<SubSeq(s, 1, n)>> \o Words(SubSeq(s, n + 1, Len(s)))

stop_words ==
    {<<"k", "n", "j", "i", "g", "a">>, <<"k", "n", "j", "i", "g", "e">>, <<"a", "u", "t", "o", "r">>, <<"o">>, <<"n", "a">>, <<"u">>, <<"i">>, <<"z", "a">>, <<"m", "i">>}

\* extract_keywords
extract_keywords(query) ==
    Take(SelectSeq(Words(Lower(query)), LAMBDA w : w \notin stop_words /\ Len(w) > 2), 3)

\* the words that make a message a question about availability (line 193)
AvailabilityWords ==
    {<<"d", "o", "s", "t", "u", "p", "n">>, <<"p", "o", "s", "u", "d", "e", "n">>, <<"j", "e", " ", "l", "i">>, <<"j", "e", "l">>, <<"i", "m", "a", " ", "l", "i", " ", "n", "a">>, <<"r", "e", "z", "e", "r", "v">>}

NameTheBook == <<Lit("Molim navedite naziv knjige ciju dostupnost zelite provjeriti.")>>

NotFound(keyword) ==
    <<Lit("Nisam pronasao knjigu '"), Txt(keyword),
      Lit("'. Molim unesite tocan naslov ili provjerite katalog.")>>

\* a generate_response that asks the catalog for the keyword itself when the
\* store has no book for it
generate_response_asks_anyway(tables, user_message, call) ==
    LET query_lower == Lower(user_message)
        keywords == extract_keywords(user_message)
        silent == [raised |-> "None", checked |-> <<>>, requests |-> <<>>, jar |-> call.jar]
        answered(book_id, r) ==
            IF r.raised # "None"
            THEN [raised |-> r.raised, checked |-> <<book_id>>,
                  requests |-> r.requests, jar |-> r.jar]
            ELSE [raised |-> "None", checked |-> <<book_id>>,
                  requests |-> r.requests, jar |-> r.jar,
                  reply |-> [kind |-> "availability",
                             text |-> format_availability_message(r.report)]]
        looked_up(books) ==
            IF books # <<>>
            THEN answered(books[1].id, check_availability(books[1].id, call))
            ELSE answered("428003514", check_availability("428003514", call))
    IN  IF \E word \in AvailabilityWords : Contains(query_lower, word)
        THEN IF keywords # <<>>
             THEN looked_up(search_books(tables, keywords[1], 1))
             ELSE silent @@ [reply |-> [kind |-> "name_the_book", text |-> NameTheBook]]
        ELSE silent @@ [reply |-> [kind |-> "other"]]

\* generate_response: [raised, reply, checked, requests, jar].  The branches
\* after the availability branch (lines 214-329) read the store and the
\* knowledge base and answer from templates; their reply is kept as
\* [kind |-> "other"]
generate_response(tables, user_message, call) ==
    LET query_lower == Lower(user_message)
        keywords == extract_keywords(user_message)
        silent == [raised |-> "None", checked |-> <<>>, requests |-> <<>>, jar |-> call.jar]
        answered(book_id, r) ==
            IF r.raised # "None"
            THEN [raised |-> r.raised, checked |-> <<book_id>>,
                  requests |-> r.requests, jar |-> r.jar]
            ELSE [raised |-> "None", checked |-> <<book_id>>,
                  requests |-> r.requests, jar |-> r.jar,
                  reply |-> [kind |-> "availability",
                             text |-> format_availability_message(r.report)]]
        looked_up(books) ==
            IF books # <<>>
            THEN answered(books[1].id, check_availability(books[1].id, call))
            ELSE silent @@ [reply |-> [kind |-> "not_found", text |-> NotFound(keywords[1])]]
    IN  IF \E word \in AvailabilityWords : Contains(query_lower, word)
        THEN IF keywords # <<>>
             THEN looked_up(search_books(tables, keywords[1], 1))
             ELSE silent @@ [reply |-> [kind |-> "name_the_book", text |-> NameTheBook]]
        ELSE silent @@ [reply |-> [kind |-> "other"]]

\* POST /api/chat: the HTTPException of line 122 is raised inside the try
\* and handled by 'except Exception' (129-131)
chat(tables, request, call) ==
    LET user_message == Strip(request.message)
        answer(g) ==
            IF g.raised # "None"
            THEN [status |-> 500, detail |-> <<"Python Error: ", g.raised>>,
                  generated |-> TRUE, checked |-> g.checked,
                  requests |-> g.requests, jar |-> g.jar]
            ELSE [status |-> 200, body |-> g.reply,
                  generated |-> TRUE, checked |-> g.checked,
                  requests |-> g.requests, jar |-> g.jar]
    IN  IF user_message = <<>>
        THEN [status |-> 500, detail |-> <<"Python Error: ", "400: Poruka ne moze biti prazna">>,
              generated |-> FALSE, checked |-> <<>>, requests |-> <<>>, jar |-> call.jar]
        ELSE answer(generate_response(tables, user_message, call))

\* GET /api/books/{book_id}/availability
api_check_book_availability(book_id, call) ==
    LET answer(r) ==
            IF r.raised # "None"
            THEN [status |-> 500, detail |-> r.raised, generated |-> FALSE,
                  checked |-> <<book_id>>, requests |-> r.requests, jar |-> r.jar]
            ELSE [status |-> 200, body |-> r.report, generated |-> FALSE,
                  checked |-> <<book_id>>, requests |-> r.requests, jar |-> r.jar]
    IN  answer(check_availability(book_id, call))

\* an endpoint that sends nothing to the remote site
Local(call, answer) ==
    answer @@ [generated |-> FALSE, checked |-> <<>>, requests |-> <<>>, jar |-> call.jar]

\* GET /api/books/{book_id}
get_book(tables, book_id, call) ==
    IF get_book_by_id(tables, book_id) = NoBook
    THEN Local(call, [status |-> 404, detail |-> "Knjiga nije pronadena"])
    ELSE Local(call, [status |-> 200, body |-> get_book_by_id(tables, book_id)])

\* GET /api/books/popular
get_popular_books(tables, limit, call) ==
    Local(call, [status |-> 200,
                 body |-> [count |-> Len(get_all_books(tables, limit)),
                           books |-> get_all_books(tables, limit)]])

\* POST /api/books/search
api_search_books(tables, request, call) ==
    Local(call, [status |-> 200,
                 body |-> [query |-> request.query,
                           count |-> Len(search_books(tables, request.query, request.limit)),
                           books |-> search_books(tables, request.query, request.limit)]])

\* the application: the router and the endpoint it runs
App(tables, request, call) ==
    LET i == RouteOf(request)
        endpoint == IF i = 0 THEN "none" ELSE Routes[i].endpoint
    IN  [endpoint |-> endpoint] @@
        CASE endpoint = "api_root" -> Local(call, [status |-> 200])
          [] endpoint = "health_check" -> Local(call, [status |-> 200])
          [] endpoint = "check_book_availability" ->
                api_check_book_availability(PathParam(Routes[i], request), call)
          [] endpoint = "chat" -> chat(tables, request, call)
          [] endpoint = "search_books" -> api_search_books(tables, request, call)
          [] endpoint = "get_book" -> get_book(tables, PathParam(Routes[i], request), call)
          [] endpoint = "get_popular_books" -> get_popular_books(tables, request.limit, call)
          [] OTHER -> Local(call, [status |-> 404, detail |-> "Not Found"])

\* the store after startup_event: empty without a catalog file, or the books
\* of the file
ImportedStore ==
    insert_book(insert_book(EmptyStore, FullBook("428003512"), 0).store,
                BareBook("428003513"), 0).store

ApiStores == {EmptyStore, ImportedStore}

m_je_li_Ana == <<"j", "e", " ", "l", "i", " ", "A", "n", "a">>
m_je_li == <<"j", "e", " ", "l", "i">>
m_je_li_Eva_dostupna == <<"j", "e", " ", "l", "i", " ", "E", "v", "a", " ", "d", "o", "s", "t", "u", "p", "n", "a">>
m_dostupna_Ana == <<"d", "o", "s", "t", "u", "p", "n", "a", " ", "A", "n", "a">>
m_radno_vrijeme == <<"r", "a", "d", "n", "o", " ", "v", "r", "i", "j", "e", "m", "e">>
m_knjiga_o_Ani == <<"k", "n", "j", "i", "g", "a", " ", "o", " ", "A", "n", "i">>

ChatMessages ==
    {<<>>, <<" ", " ">>, m_je_li_Ana, m_je_li, m_je_li_Eva_dostupna, m_dostupna_Ana,
     m_radno_vrijeme, m_knjiga_o_Ani}

ApiRequests ==
    {[method |-> "POST", path |-> <<"api", "chat">>, message |-> m] : m \in ChatMessages}
    \cup {[method |-> "GET", path |-> <<"api", "books", "popular">>, limit |-> n] :
            n \in 1..MaxLimit}
    \cup {[method |-> "GET", path |-> <<"api", "books", id>>] : id \in CatalogIds}
    \cup {[method |-> "GET", path |-> <<"api", "books", id, "availability">>] :
            id \in BookIds}
    \cup {[method |-> "POST", path |-> <<"api", "books", "search">>,
           query |-> t_Ana, limit |-> n] : n \in 1..MaxLimit}
    \cup {[method |-> "GET", path |-> <<"api">>],
          [method |-> "GET", path |-> <<"api", "health">>],
          [method |-> "GET", path |-> <<"api", "members">>]}

ApiPages == {Page(None, TRUE, t_Ana, <<>>), Page(None, FALSE, None, <<>>)}

ApiFrags ==
    {[tables |-> <<>>],
     [tables |-> <<Table("", "", <<MarkerRow(t_Kastav), DataRow(c_available),
                                   DataRow(c_borrowed)>>)>>]}

InitApi ==
    /\ db \in ApiStores
    /\ remotePage \in ApiPages
    /\ remoteFrag \in ApiFrags
    /\ session = {}
    /\ response = NoResponseYet
    /\ lastCall = NoCall
    /\ table = NoTable
    /\ parsed = NotParsed
    /\ cell = NoCell
    /\ classified = NotClassified
    /\ reportIn = NoReport
    /\ message = NotFormatted
    /\ scrape = NotStarted
    /\ inserted = NotInserted

\* the server answers one request
serve(request) ==
    \E get \in GetOutcomes(remotePage), post \in PostOutcomes(remoteFrag) \cup {NotSent},
       dataDir \in DataDirs, random \in Randoms :
        /\ Ok(get) <=> post # NotSent
        /\ ~(post # NotSent /\ Ok(post)) => dataDir = "passes"
        /\ \E r \in {App(db.working, request,
                         [jar |-> {"earlier" : c \in session},
                          get |-> get, post |-> post, dataDir |-> dataDir,
                          random |-> random])} :
              /\ response' = [f \in (DOMAIN r \ {"jar"}) \cup {"request"} |->
                                 IF f = "request" THEN request ELSE r[f]]
              /\ session' = r.jar
        /\ UNCHANGED <<remotePage, remoteFrag, lastCall, table, parsed, cell, classified,
                       reportIn, message, scrape, db, inserted>>

NextApi == \E request \in ApiRequests : serve(request)

SpecApi == InitApi /\ [][NextApi]_vars

Answered == response # NoResponseYet
IsChat(request) == request.method = "POST" /\ request.path = <<"api", "chat">>
IsPopular(request) == request.method = "GET" /\ request.path = <<"api", "books", "popular">>

\* C22: POST /api/chat with a message that is empty or only whitespace is
\* answered with HTTP status 400, and generate_response is not called for it.
C22_BlankMessageIs400 ==
    (Answered /\ IsChat(response.request) /\ Strip(response.request.message) = <<>>) =>
        /\ response.status = 400
        /\ ~response.generated

\* C23: GET /api/books/popular is served by get_popular_books and returns
\* the count and the list of the books of the store, up to limit; it is
\* never handled as the lookup of a book with id 'popular'.
C23_PopularServedByPopular ==
    (Answered /\ IsPopular(response.request)) =>
        /\ response.endpoint = "get_popular_books"
        /\ response.status = 200
        /\ response.body.books = Take(db.working.books, response.request.limit)
        /\ response.body.count = Len(response.body.books)

\* the message is a question about availability
HasTrigger(text) == \E word \in AvailabilityWords : Contains(Lower(text), word)

\* the books the store has for the first keyword of the message
BooksForFirstKeyword(text) ==
    IF extract_keywords(text) = <<>> THEN <<>>
    ELSE search_books(db.working, extract_keywords(text)[1], 1)

\* the answer to a chat message for which generate_response was called
Generated == Answered /\ IsChat(response.request) /\ response.generated

\* C27 as the claim words it: check_availability is called exactly when the
\* message has a trigger word, a keyword and a book for the first keyword,
\* with that book's id; in every other case nothing is sent and the
\* reply is 'not found' or 'please name the book'.
C27_AsWorded ==
    Generated =>
        LET text == Strip(response.request.message)
            books == BooksForFirstKeyword(text)
        IN  IF HasTrigger(text) /\ books # <<>>
            THEN response.checked = <<books[1].id>>
            ELSE /\ response.checked = <<>>
                 /\ response.requests = <<>>
                 /\ response.body.kind \in {"not_found", "name_the_book"}

\* C27: the chat handler calls check_availability only with an id taken from
\* the store: exactly when the message has a trigger word, a keyword and a
\* book for the first keyword, and with that first result's id.  In every
\* other case nothing is sent to the remote site; a message with a trigger
\* word gets the 'please name the book' reply when it has no keyword and
\* the 'not found' reply naming the first keyword when the store has no
\* book for it.
C27_LookupBeforeCheck ==
    Generated =>
        LET text == Strip(response.request.message)
            books == BooksForFirstKeyword(text)
        IN  IF HasTrigger(text) /\ books # <<>>
            THEN /\ response.checked = <<books[1].id>>
                 /\ \A k \in 1..Len(response.requests) :
                       response.requests[k].id = books[1].id
            ELSE /\ response.checked = <<>>
                 /\ response.requests = <<>>
                 /\ HasTrigger(text) =>
                       IF extract_keywords(text) = <<>>
                       THEN response.body = [kind |-> "name_the_book", text |-> NameTheBook]
                       ELSE response.body =
                              [kind |-> "not_found",
                               text |-> NotFound(extract_keywords(text)[1])]

\* a question whose second keyword names a book of the store and whose
\* first does not
C27_NotFoundCase ==
    /\ Generated
    /\ response.request.message = m_dostupna_Ana
    /\ db = ImportedStore
    /\ response.body.kind = "not_found"
    /\ response.requests = <<>>

\* a question answered from the remote site for the first of two books
C27_Witness ==
    /\ Generated
    /\ response.request.message = m_je_li_Ana
    /\ Len(search_books(db.working, t_Ana, MaxLimit)) = 2
    /\ response.checked = <<"428003512">>
    /\ Len(response.requests) = 2

\* C24: resolving availability is read-only: a request answered through
\* check_availability, and format_availability_message in the chat, leaves
\* every table of the store as it was, and what is sent to the remote site
\* is the GET of the record page and the getLokacije POST, nothing else.
C24_ReadOnly ==
    [][(response' # NoResponseYet /\ response'.checked # <<>>) =>
          /\ db' = db
          /\ Len(response'.requests) <= 2
          /\ \A k \in 1..Len(response'.requests) :
                LET sent == response'.requests[k]
                IN  /\ sent.id = response'.checked[1]
                    /\ IF k = 1
                       THEN sent.method = "GET" /\ sent.action = "page"
                       ELSE sent.method = "POST" /\ sent.action = "getLokacije"]_vars

\* a chat answer for which both requests were sent, on a store that holds
\* books
C24_Witness ==
    /\ Generated
    /\ response.body.kind = "availability"
    /\ response.checked # <<>>
    /\ Len(response.requests) = 2
    /\ db = ImportedStore
    /\ db.working.book_authors # <<>>

====
